---- MODULE Spec2Model ----
(***************************************************************************)
(* Verification model of the RouteCodex dead-function tooling:             *)
(*   scripts/simple_dead_function_finder.py  (SimpleDeadFunctionFinder)    *)
(*   scripts/dead_function_analyzer.py       (DeadFunctionAnalyzer)        *)
(* Source text is modelled as strings; the regular expressions of the      *)
(* extractor are modelled character by character.                          *)
(***************************************************************************)
EXTENDS Integers, Sequences, FiniteSets, TLC

(***************************************************************************)
(* Characters and the regular-expression primitives of Python's re.        *)
(***************************************************************************)
LowerLetters == {"a","b","c","d","e","f","g","h","i","j","k","l","m",
                 "n","o","p","q","r","s","t","u","v","w","x","y","z"}

UpperLetters == {"A","B","C","D","E","F","G","H","I","J","K","L","M",
                 "N","O","P","Q","R","S","T","U","V","W","X","Y","Z"}

Digits == {"0","1","2","3","4","5","6","7","8","9"}

\* \w
WordChars == LowerLetters \cup UpperLetters \cup Digits \cup {"_"}

\* \s
SpaceChars == {" ", "\t", "\n"}

Ch(s, i) == SubSeq(s, i, i)

\* 0 is the "no match" position (the scanners below pass it through);
\* positions are 1-based, ends are exclusive.
NoMatch == [name |-> "", end |-> 0]

\* literal text t at position i; the position after it, or 0
Lit(s, i, t) ==
    IF i >= 1 /\ i + Len(t) - 1 <= Len(s) /\ SubSeq(s, i, i + Len(t) - 1) = t
    THEN i + Len(t) ELSE 0

\* \w* from position i (greedy): the position after the run
RECURSIVE WordEnd(_, _)
WordEnd(s, i) ==
    IF i >= 1 /\ i <= Len(s) /\ Ch(s, i) \in WordChars THEN WordEnd(s, i + 1) ELSE i

\* \s* from position i (greedy): the position after the run
RECURSIVE SpaceEnd(_, _)
SpaceEnd(s, i) ==
    IF i >= 1 /\ i <= Len(s) /\ Ch(s, i) \in SpaceChars THEN SpaceEnd(s, i + 1) ELSE i

\* [^)]* from position i (greedy): the position of the first ")" or Len+1
RECURSIVE NotParenEnd(_, _)
NotParenEnd(s, i) ==
    IF i >= 1 /\ i <= Len(s) /\ Ch(s, i) # ")" THEN NotParenEnd(s, i + 1) ELSE i

\* t appears somewhere in s (Python: t in s)
RECURSIVE ContainsFrom(_, _, _)
ContainsFrom(s, t, i) ==
    IF i + Len(t) - 1 > Len(s) THEN FALSE
    ELSE IF SubSeq(s, i, i + Len(t) - 1) = t THEN TRUE
    ELSE ContainsFrom(s, t, i + 1)

Contains(s, t) == ContainsFrom(s, t, 1)

StartsWith(s, t) == Lit(s, 1, t) # 0

EndsWith(s, t) == Len(t) <= Len(s) /\ SubSeq(s, Len(s) - Len(t) + 1, Len(s)) = t

UpperSeq == "ABCDEFGHIJKLMNOPQRSTUVWXYZ"

LowerSeq == "abcdefghijklmnopqrstuvwxyz"

LowerCh(c) ==
    IF c \in UpperLetters
    THEN LET k == CHOOSE k \in 1..26 : Ch(UpperSeq, k) = c IN Ch(LowerSeq, k)
    ELSE c

\* str.lower()
RECURSIVE Lower(_)
Lower(s) == IF s = "" THEN "" ELSE LowerCh(Ch(s, 1)) \o Lower(SubSeq(s, 2, Len(s)))

\* the end of an optional group (?:<word>\s+)? at position i, where j is the
\* position after <word> (0: the word is not there)
OptGroup(s, i, j) == IF j # 0 /\ SpaceEnd(s, j) > j THEN SpaceEnd(s, j) ELSE i

\* (?:export\s+)? at position i: the position after the optional group
OptExport(s, i) == OptGroup(s, i, Lit(s, i, "export"))

\* (?:async\s+)? at position i
OptAsync(s, i) == OptGroup(s, i, Lit(s, i, "async"))

\* (?:const|let|var) at position i, or 0
Binder(s, i) ==
    IF Lit(s, i, "const") # 0 THEN Lit(s, i, "const")
    ELSE IF Lit(s, i, "let") # 0 THEN Lit(s, i, "let")
    ELSE Lit(s, i, "var")

\* (?:public|private|protected) at position i, or 0
Modifier(s, i) ==
    IF Lit(s, i, "public") # 0 THEN Lit(s, i, "public")
    ELSE IF Lit(s, i, "private") # 0 THEN Lit(s, i, "private")
    ELSE Lit(s, i, "protected")

\* the match that captured s[i..e-1] and ends before position g (0: none)
Capture(s, i, e, g) ==
    IF e > i /\ g # 0 THEN [name |-> SubSeq(s, i, e - 1), end |-> g] ELSE NoMatch

\* the match that captured name and ends before position g (0: none)
Captured(name, g) == IF g # 0 THEN [name |-> name, end |-> g] ELSE NoMatch

\* the first alternative that matches
FirstMatch(r1, r2) == IF r1.end # 0 THEN r1 ELSE r2

\* (\w+)\s*\(  where the word is s[i..e-1]
WordCallEnd(s, i, e) == Capture(s, i, e, Lit(s, SpaceEnd(s, e), "("))

\* (\w+)\s*\(  at position i: the captured word and the position after "("
WordCall(s, i) == WordCallEnd(s, i, WordEnd(s, i))

\* \s+(\w+)\s*\(  at position c (0: what precedes did not match), d = SpaceEnd
SpacedWordCall(s, c, d) == IF c # 0 /\ d > c THEN WordCall(s, d) ELSE NoMatch

(***************************************************************************)
(* extract_functions_from_file: the six definition patterns, each tried at *)
(* one start position p of a line.  A result is the captured name and the  *)
(* position after the match (0: no match at p).                            *)
(***************************************************************************)

\* <keyword>\s+(\w+)\s*\(  where c is the position after the keyword
FunctionName(s, c) == SpacedWordCall(s, c, SpaceEnd(s, c))

\* (?:export\s+)?(?:async\s+)?function\s+(\w+)\s*\(
DefPattern1(s, p) == FunctionName(s, Lit(s, OptAsync(s, OptExport(s, p)), "function"))

\* (\w+)\s*=\s*  where the word is s[d..e-1]
BoundAssign(s, d, e) ==
    Capture(s, d, e, SpaceEnd(s, Lit(s, SpaceEnd(s, e), "=")))

\* \s+(\w+)\s*=\s*  at position b (0: no binder), d = SpaceEnd
BoundName(s, b, d) == IF b # 0 /\ d > b THEN BoundAssign(s, d, WordEnd(s, d)) ELSE NoMatch

BoundAfter(s, b) == BoundName(s, b, SpaceEnd(s, b))

\* the shared head of patterns 2 and 3:
\* (?:export\s+)?(?:const|let|var)\s+(\w+)\s*=\s*   -> name, position after
BoundHead(s, p) == BoundAfter(s, Binder(s, OptExport(s, p)))

\* (?:async\s+)?function\s*\(  after the head h
FunctionParen(s, h) ==
    IF h.end = 0 THEN NoMatch
    ELSE Captured(h.name, Lit(s, SpaceEnd(s, Lit(s, OptAsync(s, h.end), "function")), "("))

\* ...=\s*(?:async\s+)?function\s*\(
DefPattern2(s, p) == FunctionParen(s, BoundHead(s, p))

\* [^)]*\)  at position o (0: no "(" before): the position after ")", or 0
ParenClose(s, o) == Lit(s, NotParenEnd(s, o), ")")

\* \([^)]*\)  at position i: the position after ")", or 0
ParenGroup(s, i) == ParenClose(s, Lit(s, i, "("))

\* \([^)]*\)\s*=>  after the head h
ArrowParen(s, h) ==
    IF h.end = 0 THEN NoMatch
    ELSE Captured(h.name, Lit(s, SpaceEnd(s, ParenGroup(s, h.end)), "=>"))

\* ...=\s*\([^)]*\)\s*=>
DefPattern3(s, p) == ArrowParen(s, BoundHead(s, p))

\* \s*<one of closers>  at position g (0: none), k = SpaceEnd
Closed(s, name, k, closers) ==
    IF k # 0 /\ k <= Len(s) /\ Ch(s, k) \in closers
    THEN [name |-> name, end |-> k + 1]
    ELSE NoMatch

\* [^)]*\)\s*<one of closers>  after the word call w
Shaped(s, w, closers) ==
    IF w.end = 0 THEN NoMatch
    ELSE Closed(s, w.name, SpaceEnd(s, ParenClose(s, w.end)), closers)

\* (\w+)\s*\([^)]*\)\s*<one of closers>  at position i
ShapedCall(s, i, closers) == Shaped(s, WordCall(s, i), closers)

\* (?:async\s+)?<shaped call>  at position j: the optional group is tried
\* first, then skipped
AsyncShaped(s, j, closers) ==
    FirstMatch(IF OptAsync(s, j) # j THEN ShapedCall(s, OptAsync(s, j), closers) ELSE NoMatch,
               ShapedCall(s, j, closers))

\* \s*(?:async\s+)?<shaped call>  at position i
AsyncThen(s, i, closers) == AsyncShaped(s, SpaceEnd(s, i), closers)

\* (?:public|private|protected)?\s*(?:async\s+)?(\w+)\s*\([^)]*\)\s*[{:]
DefPattern4(s, p) ==
    FirstMatch(IF Modifier(s, p) # 0 THEN AsyncThen(s, Modifier(s, p), {"{", ":"}) ELSE NoMatch,
               AsyncThen(s, p, {"{", ":"}))

\* the positions j >= i of a ")" that is followed by \s*=>
ArrowCloses(s, i) ==
    {j \in i..Len(s) : Ch(s, j) = ")" /\ Lit(s, SpaceEnd(s, j + 1), "=>") # 0}

MaxOf(S) == CHOOSE j \in S : \A k \in S : k <= j

\* .*\(.*\)\s*=>  from position i (no newline in a line): greedy, so the last
\* "(" that still has a later ")" followed by \s*=>, and the last such ")".
ArrowTailOf(s, i, closes) ==
    IF \E o \in i..Len(s) : Ch(s, o) = "(" /\ \E j \in closes : j > o
    THEN Lit(s, SpaceEnd(s, MaxOf(closes) + 1), "=>")
    ELSE 0

ArrowTail(s, i) == IF i = 0 THEN 0 ELSE ArrowTailOf(s, i, ArrowCloses(s, i))

\* (\w+)\s*=.*\(.*\)\s*=>  where the word is s[i..e-1]
AssignArrowEnd(s, i, e) ==
    IF e > i THEN Capture(s, i, e, ArrowTail(s, Lit(s, SpaceEnd(s, e), "="))) ELSE NoMatch

\* (\w+)\s*=.*\(.*\)\s*=>  at position i
AssignArrow(s, i) == AssignArrowEnd(s, i, WordEnd(s, i))

\* (?:async\s+)?(\w+)\s*=.*\(.*\)\s*=>  at position j
AsyncAssignAt(s, j) ==
    FirstMatch(IF OptAsync(s, j) # j THEN AssignArrow(s, OptAsync(s, j)) ELSE NoMatch,
               AssignArrow(s, j))

\* \s*(?:async\s+)?(\w+)\s*=.*\(.*\)\s*=>
AsyncAssign(s, i) == AsyncAssignAt(s, SpaceEnd(s, i))

\* (?:public|private|protected)?\s*(?:async\s+)?(\w+)\s*=.*\(.*\)\s*=>
DefPattern5(s, p) ==
    FirstMatch(IF Modifier(s, p) # 0 THEN AsyncAssign(s, Modifier(s, p)) ELSE NoMatch,
               AsyncAssign(s, p))

\* (\w+)\s*\([^)]*\)\s*[:;]
DefPattern6(s, p) == ShapedCall(s, p, {":", ";"})

\* the patterns list, in the order of the source
NumDefPatterns == 6

DefPatternAt(k, s, p) ==
    CASE k = 1 -> DefPattern1(s, p)
      [] k = 2 -> DefPattern2(s, p)
      [] k = 3 -> DefPattern3(s, p)
      [] k = 4 -> DefPattern4(s, p)
      [] k = 5 -> DefPattern5(s, p)
      [] OTHER -> DefPattern6(s, p)

MinOf(S) == CHOOSE j \in S : \A k \in S : j <= k

\* the positions from p on at which pattern k matches
DefMatchPositions(k, s, p) == {q \in p..Len(s) : DefPatternAt(k, s, q).end # 0}

\* re.finditer(pattern, line): the captured names of the non-overlapping
\* matches, leftmost first; the search resumes where a match ended
RECURSIVE DefFindIter(_, _, _)
DefFound(k, s, r) == <<r.name>> \o DefFindIter(k, s, r.end)

DefFindFrom(k, s, positions) ==
    IF positions = {} THEN <<>> ELSE DefFound(k, s, DefPatternAt(k, s, MinOf(positions)))

DefFindIter(k, s, p) == DefFindFrom(k, s, DefMatchPositions(k, s, p))

\* functions.append({...}) for every match of every pattern on line i
\* (lines 63-84); the names of the two skip lists are dropped (lines 69-75)
SkippedNames == {"constructor", "toString", "valueOf", "then", "catch", "finally",
                 "render", "componentDidMount", "componentDidUpdate",
                 "componentWillUnmount"}

RECURSIVE DropSkipped(_)
DropSkipped(names) ==
    IF names = <<>> THEN <<>>
    ELSE IF Head(names) \in SkippedNames THEN DropSkipped(Tail(names))
    ELSE <<Head(names)>> \o DropSkipped(Tail(names))

RECURSIVE LineNames(_, _)
LineNames(line, k) ==
    IF k > NumDefPatterns THEN <<>>
    ELSE DropSkipped(DefFindIter(k, line, 1)) \o LineNames(line, k + 1)

(***************************************************************************)
(* extract_function_calls_from_file: four call patterns over the whole     *)
(* content of the file (lines 100-116).                                    *)
(***************************************************************************)

\* content = f.read(): the lines joined by "\n"
RECURSIVE Content(_)
Content(lines) ==
    IF lines = <<>> THEN ""
    ELSE IF Len(lines) = 1 THEN lines[1]
    ELSE lines[1] \o "\n" \o Content(Tail(lines))

\* <keyword>\s+(\w+)\s*\(  at position p
KeywordCall(s, p, kw) == FunctionName(s, Lit(s, p, kw))

NumCallPatterns == 4

CallPatternAt(k, s, p) ==
    CASE k = 1 -> WordCall(s, p)                                  \* (\w+)\s*\(
      [] k = 2 -> IF Lit(s, p, ".") # 0 THEN WordCall(s, p + 1)   \* \.(\w+)\s*\(
                  ELSE NoMatch
      [] k = 3 -> KeywordCall(s, p, "await")                      \* await\s+(\w+)\s*\(
      [] OTHER -> KeywordCall(s, p, "yield")                      \* yield\s+(\w+)\s*\(

CallMatchPositions(k, s, p) == {q \in p..Len(s) : CallPatternAt(k, s, q).end # 0}

\* re.finditer(pattern, content): the set of the captured names
RECURSIVE CallFindIter(_, _, _)
CallFound(k, s, r) == {r.name} \cup CallFindIter(k, s, r.end)

CallFindFrom(k, s, positions) ==
    IF positions = {} THEN {} ELSE CallFound(k, s, CallPatternAt(k, s, MinOf(positions)))

CallFindIter(k, s, p) == CallFindFrom(k, s, CallMatchPositions(k, s, p))

ExcludedCalls == {"new", "require", "import", "console", "Math", "JSON", "Object", "Array"}

\* the calls set of one readable file
FileCalls(lines) ==
    UNION {CallFindIter(k, Content(lines), 1) : k \in 1..NumCallPatterns} \ ExcludedCalls

(***************************************************************************)
(* Paths.  A path is the tuple of its parts (pathlib's Path.parts); the    *)
(* analysed tree maps the path of each file, relative to the project root, *)
(* to the lines of the file.                                               *)
(***************************************************************************)

\* '/'.join(parts)
RECURSIVE JoinPath(_)
JoinPath(parts) ==
    IF parts = <<>> THEN ""
    ELSE IF Len(parts) = 1 THEN parts[1]
    ELSE parts[1] \o "/" \o JoinPath(Tail(parts))

\* exclude_dirs (lines 27-31)
ExcludeDirs == {"node_modules", ".git", "dist", "build", "coverage",
                ".nyc_output", ".vscode", ".claude", "logs"}

\* the glob patterns, in the order of line 33
Extensions == <<".ts", ".tsx", ".js", ".jsx">>

\* '**/*<ext>' matches the path: its last part ends with ext
HasExtension(path, ext) == Len(path) > 0 /\ EndsWith(path[Len(path)], ext)

\* any(exclude_dir in file_path.parts ...): file_path is root / relative
InExcludedDir(root, path) == \E i \in 1..Len(root \o path) : (root \o path)[i] \in ExcludeDirs

\* all orders in which a directory walk may list the set S of paths
RECURSIVE Orderings(_)
Orderings(S) ==
    IF S = {} THEN {<<>>}
    ELSE UNION {{<<x>> \o rest : rest \in Orderings(S \ {x})} : x \in S}

\* the files one glob pattern contributes (lines 34-37), in any listing order
GlobMatches(root, paths, ext) ==
    Orderings({q \in paths : HasExtension(q, ext) /\ ~InExcludedDir(root, q)})

\* find_typescript_javascript_files: the possible results, pattern by pattern
RECURSIVE FileListings(_, _, _)
FileListings(root, paths, k) ==
    IF k > Len(Extensions) THEN {<<>>}
    ELSE {a \o b : a \in GlobMatches(root, paths, Extensions[k]),
                   b \in FileListings(root, paths, k + 1)}

find_typescript_javascript_files(root, paths) == FileListings(root, paths, 1)

RECURSIVE IndexOf(_, _, _)
IndexOf(seq, x, i) ==
    IF i > Len(seq) THEN 0 ELSE IF seq[i] = x THEN i ELSE IndexOf(seq, x, i + 1)

Min(a, b) == IF a <= b THEN a ELSE b

\* SimpleDeadFunctionFinder._get_module_name, on the parts of the path
FinderModuleName(path) ==
    LET i == IndexOf(path, "src", 1)
    IN  IF i # 0 THEN JoinPath(SubSeq(path, i, Min(i + 2, Len(path))))
        ELSE JoinPath(SubSeq(path, 1, Min(2, Len(path))))

(***************************************************************************)
(* SimpleDeadFunctionFinder._assess_risk_level                             *)
(***************************************************************************)
Letters == LowerLetters \cup UpperLetters

\* re.match(r'^<prefix>[A-Z]', name, re.IGNORECASE)
PrefixThenLetter(lname, prefix) ==
    /\ StartsWith(lname, prefix)
    /\ Len(lname) > Len(prefix)
    /\ Ch(lname, Len(prefix) + 1) \in Letters

FinderHighRisk(name) ==
    LET n == Lower(name)
    IN  \/ \E x \in {"init", "setup", "start", "run"} : StartsWith(n, x)
        \/ \E x \in {"handler", "manager", "service"} : EndsWith(n, x)
        \/ n = "main"
        \/ PrefixThenLetter(n, "on")
        \/ PrefixThenLetter(n, "handle")

FinderLowRisk(name) ==
    \E x \in {"test", "mock", "fixture", "example", "debug", "log", "helper", "util"} :
        StartsWith(Lower(name), x)

FinderLowRiskFile(file) ==
    \E x \in {"test", "spec", "mock", "example"} : Contains(Lower(file), x)

FinderAssessRisk(func_name, file_path) ==
    IF FinderLowRiskFile(file_path) THEN "LOW"
    ELSE IF FinderHighRisk(func_name) THEN "HIGH"
    ELSE IF FinderLowRisk(func_name) THEN "LOW"
    ELSE "MEDIUM"

(***************************************************************************)
(* The source lines of the model, and the extraction tabulated over them:  *)
(* the tables hold, for each line and each file content the model can      *)
(* build, what LineNames and FileCalls compute for it, evaluated once.     *)
(***************************************************************************)
MaxLines == 3

\* the lines a source file of the model may hold
LineLib == {"export function used(){}",
            "function helper(){}",
            "used();",
            "const onClick = function(){}",
            "emitter.on('onClick')",
            "export const mk = (a) => a",
            "onClick();"}

SeqsUpTo(n) == UNION {[1..k -> LineLib] : k \in 0..n}

LineNamesTable == [line \in LineLib |-> LineNames(line, 1)]

FileCallsTable == [lines \in SeqsUpTo(MaxLines) |-> FileCalls(lines)]

\* the names the six patterns capture on one line
NamesOfLine(line) ==
    IF line \in LineLib THEN LineNamesTable[line] ELSE LineNames(line, 1)

\* the content of a file whose open() or read() raises (no permission, bytes
\* that are not UTF-8)
Unreadable == <<"<unreadable>">>

\* extract_function_calls_from_file: the exception of an unreadable file is
\* caught and the empty set returned (lines 118-121)
extract_function_calls_from_file(lines) ==
    IF lines = Unreadable THEN {}
    ELSE IF Len(lines) <= MaxLines /\ \A k \in 1..Len(lines) : lines[k] \in LineLib
    THEN FileCallsTable[lines]
    ELSE FileCalls(lines)

(***************************************************************************)
(* SimpleDeadFunctionFinder: extraction per file and analyze_project       *)
(***************************************************************************)

\* the record appended at lines 77-84
FunctionRecord(name, path, i, line) ==
    [name     |-> name,
     file     |-> JoinPath(path),
     line     |-> i,
     type     |-> "function",
     exported |-> Contains(line, "export"),
     module   |-> FinderModuleName(path)]

\* one record per captured name
NameRecords(names, path, i, line) ==
    [k \in 1..Len(names) |-> FunctionRecord(names[k], path, i, line)]

\* the records of one line: every match of every pattern
LineFunctions(path, i, line) == NameRecords(NamesOfLine(line), path, i, line)

\* extract_functions_from_file, lines i..end of the file
RECURSIVE FileFunctionsFrom(_, _, _)
FileFunctionsFrom(path, lines, i) ==
    IF i > Len(lines) THEN <<>>
    ELSE LineFunctions(path, i, lines[i]) \o FileFunctionsFrom(path, lines, i + 1)

\* the exception of an unreadable file is caught and the empty list returned
\* (lines 86-89)
extract_functions_from_file(path, lines) ==
    IF lines = Unreadable THEN <<>> ELSE FileFunctionsFrom(path, lines, 1)

\* lines 141-144: all_functions.extend(...) over the files, in their order
RECURSIVE AllFunctions(_, _)
AllFunctions(t, files) ==
    IF files = <<>> THEN <<>>
    ELSE extract_functions_from_file(Head(files), t[Head(files)])
         \o AllFunctions(t, Tail(files))

\* a variant of AllCalls in which a file that cannot be read ends the loop
RECURSIVE AllCalls_UntilFailure(_, _)
AllCalls_UntilFailure(t, files) ==
    IF files = <<>> \/ t[Head(files)] = Unreadable THEN {}
    ELSE extract_function_calls_from_file(t[Head(files)])
         \cup AllCalls_UntilFailure(t, Tail(files))

\* a variant of AllCalls that keeps the calls of the first file only: with it
\* the findings depend on the order of the files
AllCalls_FirstFileOnly(t, files) ==
    IF files = <<>> THEN {} ELSE extract_function_calls_from_file(t[files[1]])

\* lines 149-152: all_calls.update(...) over the files
AllCalls(t, files) ==
    UNION {extract_function_calls_from_file(t[files[i]]) : i \in 1..Len(files)}

\* variants of the test of line 159 that drop one of its two conditions
IsUnused_IgnoringExport(func, calls) == func.name \notin calls

IsUnused_IgnoringCalls(func, calls) == ~func.exported

\* the test of line 159
IsUnused(func, calls) == func.name \notin calls /\ ~func.exported

\* lines 157-161: the unused functions, each with its risk level
RECURSIVE UnusedFunctions(_, _)
UnusedFunctions(funcs, calls) ==
    IF funcs = <<>> THEN <<>>
    ELSE LET f == Head(funcs)
             rest == UnusedFunctions(Tail(funcs), calls)
         IN  IF IsUnused(f, calls)
             THEN <<[name |-> f.name, file |-> f.file, line |-> f.line,
                     type |-> f.type, exported |-> f.exported, module |-> f.module,
                     risk_level |-> FinderAssessRisk(f.name, f.file)]>> \o rest
             ELSE rest

\* lines 165-174: the returned dictionary, with the two locals it is made of
AnalysisResult(funcs, calls, files) ==
    [total_functions  |-> Len(funcs),
     total_calls      |-> Cardinality(calls),
     unused_functions |-> UnusedFunctions(funcs, calls),
     all_functions    |-> funcs,
     all_calls        |-> calls,
     files            |-> files,
     files_analyzed   |-> Len(files)]

\* analyze_project on the files as enumerated
AnalyzeFiles(t, files) == AnalysisResult(AllFunctions(t, files), AllCalls(t, files), files)

\* generate_report, lines 262-264: the findings of each risk level
RiskCounts(unused) ==
    [level \in {"LOW", "MEDIUM", "HIGH"} |->
        Cardinality({i \in 1..Len(unused) : unused[i].risk_level = level})]

(***************************************************************************)
(* SimpleDeadFunctionFinder.generate_cleanup_script.  The script is the    *)
(* sequence of its lines; the texts of the echo messages are rendered in   *)
(* ASCII, the commands are those of the source.                            *)
(***************************************************************************)
RECURSIVE SelectLevel(_, _)
SelectLevel(funcs, level) ==
    IF funcs = <<>> THEN <<>>
    ELSE IF Head(funcs).risk_level = level
         THEN <<Head(funcs)>> \o SelectLevel(Tail(funcs), level)
         ELSE SelectLevel(Tail(funcs), level)

\* seq[:n]
Take(seq, n) == SubSeq(seq, 1, Min(n, Len(seq)))

\* low_risk[:10], line 229
FinderScriptLimit == 10

FinderScriptHeader(n) ==
    <<"#!/bin/bash",
      "# RouteCodex low-risk dead function cleanup script",
      "# generated - low-risk functions only",
      "",
      "set -e",
      "",
      "echo 'cleaning low-risk dead functions...'",
      "echo 'will clean " \o ToString(n) \o " low-risk functions'",
      "",
      "BACKUP_DIR=\"cleanup-backup-$(date +%Y%m%d-%H%M%S)\"",
      "mkdir -p \"$BACKUP_DIR\"",
      "echo \"backup directory: $BACKUP_DIR\"",
      "">>

\* lines 234-245: the block of one function
FinderScriptBlock(func) ==
    <<"echo 'clean function: " \o func.name \o " (" \o func.file \o ":"
          \o ToString(func.line) \o ")'",
      "if [[ -f '" \o func.file \o "' ]]; then",
      "  cp '" \o func.file \o "' \"$BACKUP_DIR/$(basename " \o func.file \o ").backup\"",
      "  echo '  backed up: $(basename " \o func.file \o ")'",
      "  # TODO: implement precise function removal",
      "  echo '  function definition must be removed by hand'",
      "else",
      "  echo '  file does not exist: " \o func.file \o "'",
      "fi",
      "">>

FinderScriptFooter ==
    <<"echo 'low-risk cleanup script generated'",
      "echo 'check and remove the functions by hand'",
      "echo 'restore from the backup directory if needed'",
      "">>

RECURSIVE FinderScriptBlocks(_)
FinderScriptBlocks(funcs) ==
    IF funcs = <<>> THEN <<>>
    ELSE FinderScriptBlock(Head(funcs)) \o FinderScriptBlocks(Tail(funcs))

\* a variant of FinderScripted that forgets to select the low-risk functions
FinderScripted_AnyLevel(unused) == Take(unused, FinderScriptLimit)

\* the functions that get a block (line 229)
FinderScripted(unused) == Take(SelectLevel(unused, "LOW"), FinderScriptLimit)

generate_cleanup_script(unused) ==
    FinderScriptHeader(Len(SelectLevel(unused, "LOW")))
    \o FinderScriptBlocks(FinderScripted(unused))
    \o FinderScriptFooter

(***************************************************************************)
(* DeadFunctionAnalyzer (dead_function_analyzer.py).  A dictionary is a    *)
(* TLA+ function whose domain is the set of its keys, so that d.get(k, v)  *)
(* can tell a missing key; the function_calls dictionary, whose order of   *)
(* iteration matters, is the sequence of its (name, info) items.           *)
(***************************************************************************)

\* d.get(k, default)
Get(d, k, default) == IF k \in DOMAIN d THEN d[k] ELSE default

\* s.replace('\\', '/')
RECURSIVE ReplaceBackslash(_)
ReplaceBackslash(s) ==
    IF s = "" THEN ""
    ELSE (IF Ch(s, 1) = "\\" THEN "/" ELSE Ch(s, 1)) \o ReplaceBackslash(SubSeq(s, 2, Len(s)))

\* s.split('/'): from position i, the part that starts at position b
RECURSIVE SplitFrom(_, _, _)
SplitFrom(s, b, i) ==
    IF i > Len(s) THEN <<SubSeq(s, b, Len(s))>>
    ELSE IF Ch(s, i) = "/" THEN <<SubSeq(s, b, i - 1)>> \o SplitFrom(s, i + 1, i + 1)
    ELSE SplitFrom(s, b, i + 1)

SplitSlash(s) == SplitFrom(s, 1, 1)

\* DeadFunctionAnalyzer._get_module_name
AnalyzerModuleName(file_path) ==
    IF file_path = "" THEN "unknown"
    ELSE LET normalized == ReplaceBackslash(file_path)
             parts == SplitSlash(normalized)
             idx == IndexOf(parts, "routecodex-worktree", 1)
         IN  IF StartsWith(normalized, "./") THEN SubSeq(normalized, 3, Len(normalized))
             ELSE IF StartsWith(normalized, "/") /\ idx # 0
                  THEN JoinPath(SubSeq(parts, idx + 1, Len(parts)))
             ELSE normalized

\* DeadFunctionAnalyzer._assess_risk_level
AnalyzerHighRisk(name) ==
    LET n == Lower(name)
    IN  \/ n \in {"constructor", "init", "initialize", "setup", "main", "start", "run"}
        \/ \E x \in {"handler", "manager", "service"} : EndsWith(n, x)

AnalyzerMediumRisk(name) ==
    \E x \in {"helper", "util", "tool", "debug", "test", "mock", "fixture"} :
        StartsWith(Lower(name), x)

AnalyzerAssessRisk(func_name, file_path) ==
    IF AnalyzerHighRisk(func_name) THEN "HIGH"
    ELSE IF \E x \in {"test", "spec", "mock"} : Contains(Lower(file_path), x) THEN "LOW"
    ELSE IF \E x \in {"util", "helper", "debug"} : Contains(Lower(file_path), x) THEN "MEDIUM"
    ELSE IF AnalyzerMediumRisk(func_name) THEN "MEDIUM"
    ELSE "LOW"

\* Python orders strings by code point; the printable ASCII characters in
\* order (the backquote, which no name or path of the model holds, left out)
AsciiOrder == " !\"#$%&'()*+,-./0123456789:;<=>?@ABCDEFGHIJKLMNOPQRSTUVWXYZ[\\]^_abcdefghijklmnopqrstuvwxyz{|}~"

CodeOf == [c \in {Ch(AsciiOrder, k) : k \in 1..Len(AsciiOrder)} |->
              CHOOSE k \in 1..Len(AsciiOrder) : Ch(AsciiOrder, k) = c]

\* a < b on strings, from position i on (equal before i)
RECURSIVE StrLessFrom(_, _, _)
StrLessFrom(a, b, i) ==
    IF i > Len(b) THEN FALSE
    ELSE IF i > Len(a) THEN TRUE
    ELSE IF Ch(a, i) = Ch(b, i) THEN StrLessFrom(a, b, i + 1)
    ELSE CodeOf[Ch(a, i)] < CodeOf[Ch(b, i)]

StrLess(a, b) == StrLessFrom(a, b, 1)

\* the sort key of line 56, compared as Python compares tuples
KeyLess(x, y) ==
    IF x.risk_level # y.risk_level THEN StrLess(x.risk_level, y.risk_level)
    ELSE IF x.module # y.module THEN StrLess(x.module, y.module)
    ELSE StrLess(x.name, y.name)

\* sorted() is stable: the place of element i is one more than the number of
\* elements that are smaller, or equal and before it
PlaceOf(seq, i) ==
    1 + Cardinality({j \in 1..Len(seq) :
                        \/ KeyLess(seq[j], seq[i])
                        \/ j < i /\ ~KeyLess(seq[i], seq[j])})

Placed(seq, places) ==
    [k \in 1..Len(seq) |-> seq[CHOOSE i \in 1..Len(seq) : places[i] = k]]

\* sorted(unused, key=...), line 56
SortedByKey(seq) == Placed(seq, [i \in 1..Len(seq) |-> PlaceOf(seq, i)])

\* lines 45-53: the finding of one definition of func_name
AnalyzerFinding(func_name, definition) ==
    [name       |-> func_name,
     file       |-> Get(definition, "file", ""),
     line       |-> Get(definition, "line", 0),
     type       |-> Get(definition, "type", "function"),
     class      |-> Get(definition, "class", ""),
     module     |-> AnalyzerModuleName(Get(definition, "file", "")),
     risk_level |-> AnalyzerAssessRisk(func_name, Get(definition, "file", ""))]

\* a variant of ItemFindings that keeps the first definition only
ItemFindings_FirstDefinition(item) ==
    LET definitions == Get(item.info, "defined_in", <<>>)
    IN  IF Len(Get(item.info, "called_by", <<>>)) = 0 /\ definitions # <<>>
        THEN <<AnalyzerFinding(item.name, definitions[1])>>
        ELSE <<>>

\* lines 40-54: the findings of one item of function_calls
ItemFindings(item) ==
    LET definitions == Get(item.info, "defined_in", <<>>)
    IN  IF Len(Get(item.info, "called_by", <<>>)) = 0
        THEN [k \in 1..Len(definitions) |-> AnalyzerFinding(item.name, definitions[k])]
        ELSE <<>>

RECURSIVE ItemsFindings(_)
ItemsFindings(items) ==
    IF items = <<>> THEN <<>>
    ELSE ItemFindings(Head(items)) \o ItemsFindings(Tail(items))

\* DeadFunctionAnalyzer.extract_unused_functions
extract_unused_functions(d) ==
    IF "function_calls" \notin DOMAIN d THEN <<>>
    ELSE SortedByKey(ItemsFindings(d.function_calls))

\* grouped['LOW'][:20] and grouped['MEDIUM'][:30], lines 126-127
Phase1Limit == 20

Phase2Limit == 30

\* a variant of generate_cleanup_plan whose counts are those of the phase lists
generate_cleanup_plan_PhaseCounts(unused) ==
    LET grouped == [level \in {"LOW", "MEDIUM", "HIGH"} |-> SelectLevel(unused, level)]
    IN  [total_unused        |-> Len(unused),
         by_risk             |-> [LOW    |-> Len(Take(grouped["LOW"], Phase1Limit)),
                                  MEDIUM |-> Len(Take(grouped["MEDIUM"], Phase2Limit)),
                                  HIGH   |-> Len(grouped["HIGH"])],
         phase_1_low_risk    |-> Take(grouped["LOW"], Phase1Limit),
         phase_2_medium_risk |-> Take(grouped["MEDIUM"], Phase2Limit),
         phase_3_high_risk   |-> grouped["HIGH"],
         all_functions       |-> unused]

\* DeadFunctionAnalyzer.generate_cleanup_plan
generate_cleanup_plan(unused) ==
    LET grouped == [level \in {"LOW", "MEDIUM", "HIGH"} |-> SelectLevel(unused, level)]
    IN  [total_unused        |-> Len(unused),
         by_risk             |-> [level \in {"LOW", "MEDIUM", "HIGH"} |-> Len(grouped[level])],
         phase_1_low_risk    |-> Take(grouped["LOW"], Phase1Limit),
         phase_2_medium_risk |-> Take(grouped["MEDIUM"], Phase2Limit),
         phase_3_high_risk   |-> grouped["HIGH"],
         all_functions       |-> unused]

AnalyzerScriptHeader(n) ==
    <<"#!/bin/bash",
      "# RouteCodex dead function safe cleanup script",
      "# generated, run with care",
      "",
      "set -e  # exit on the first error",
      "",
      "echo 'cleaning dead functions...'",
      "echo 'will clean " \o ToString(n) \o " low-risk functions'",
      "">>

\* lines 155-167
AnalyzerScriptBlock(func) ==
    <<"echo 'clean function: " \o func.name \o " (" \o func.file \o ":"
          \o ToString(func.line) \o ")'",
      "if [[ -f '" \o func.file \o "' ]]; then",
      "  # back up the original file",
      "  cp '" \o func.file \o "' '" \o func.file \o ".backup'",
      "  echo '  original file backed up'",
      "  # TODO: implement safe function removal",
      "  echo '  function removal not implemented'",
      "else",
      "  echo '  file does not exist: " \o func.file \o "'",
      "fi",
      "">>

AnalyzerScriptFooter ==
    <<"echo 'dead function cleanup done'",
      "echo 'use the .backup files to restore'",
      "">>

\* lines 146-148: a function without a file gets no block
RECURSIVE AnalyzerScripted(_)
AnalyzerScripted(funcs) ==
    IF funcs = <<>> THEN <<>>
    ELSE IF Head(funcs).file = "" THEN AnalyzerScripted(Tail(funcs))
    ELSE <<Head(funcs)>> \o AnalyzerScripted(Tail(funcs))

RECURSIVE AnalyzerScriptBlocks(_)
AnalyzerScriptBlocks(funcs) ==
    IF funcs = <<>> THEN <<>>
    ELSE AnalyzerScriptBlock(Head(funcs)) \o AnalyzerScriptBlocks(Tail(funcs))

\* DeadFunctionAnalyzer.create_safe_cleanup_script
create_safe_cleanup_script(funcs) ==
    AnalyzerScriptHeader(Len(funcs))
    \o AnalyzerScriptBlocks(AnalyzerScripted(funcs))
    \o AnalyzerScriptFooter

(***************************************************************************)
(* State.                                                                  *)
(*   the finder's run (simple_dead_function_finder.py, main):              *)
(*     project_root, tree   the analysed project                           *)
(*     pc                   position of main                               *)
(*     analysis             what analyze_project returned                  *)
(*     report_written       SIMPLE_DEAD_FUNCTION_REPORT.md was written     *)
(*     exit_code            what main returned (-1: still running)         *)
(*     previous             the analyses of the earlier runs on the tree   *)
(*   the cleanup stage of either tool:                                     *)
(*     tool                 whose cleanup stage runs                       *)
(*     data                 the sysmem data the analyzer loaded            *)
(*     unused_functions     the list handed to the plan / the script       *)
(*     plan                 what generate_cleanup_plan returned            *)
(*     script               the lines of the generated script              *)
(*   the risk classifiers on their own:                                    *)
(*     risk_input, risk_output                                             *)
(***************************************************************************)
VARIABLES project_root, tree, pc, analysis, report_written, exit_code, previous,
          tool, data, unused_functions, plan, script,
          risk_input, risk_output,
          dir, inode, writer, observed,
          launch_env, env, region_pc,
          baseline, monitor_pc, loaded, current, diff, monitor_exit, history

finderVars == <<project_root, tree, pc, analysis, report_written, exit_code, previous>>

cleanupVars == <<tool, data, unused_functions, plan>>

riskVars == <<risk_input, risk_output>>

writeVars == <<dir, inode, writer, observed>>

regionVars == <<launch_env, env, region_pc>>

monitorVars == <<baseline, monitor_pc, loaded, current, diff, monitor_exit, history>>

toolVars == <<writeVars, regionVars, monitorVars>>

vars == <<finderVars, cleanupVars, script, riskVars, toolVars>>

None == "none"

FinderIdle ==
    /\ project_root = <<>>
    /\ tree = <<>>
    /\ pc = None
    /\ analysis = None
    /\ report_written = FALSE
    /\ exit_code = -1
    /\ previous = <<>>

CleanupIdle ==
    /\ tool = None
    /\ data = None
    /\ unused_functions = <<>>
    /\ plan = None

RiskIdle == risk_input = None /\ risk_output = None

WriteIdle ==
    /\ dir = <<>>
    /\ inode = <<>>
    /\ writer = <<>>
    /\ observed = {}

RegionIdle ==
    /\ launch_env = <<>>
    /\ env = <<>>
    /\ region_pc = None

MonitorIdle ==
    /\ baseline = <<>>
    /\ monitor_pc = None
    /\ loaded = <<>>
    /\ current = <<>>
    /\ diff = <<>>
    /\ monitor_exit = -1
    /\ history = <<>>

ToolsIdle == WriteIdle /\ RegionIdle /\ MonitorIdle

(***************************************************************************)
(* The finder's run on a project tree.                                     *)
(***************************************************************************)
MaxRuns == 2

SourceA == <<"src", "a.ts">>

SourceB == <<"test", "b.ts">>

\* files that are in every tree: one below an excluded directory, one that
\* is no source file
FixedFiles == (<<"dist", "a.js">> :> <<"onClick();">>) @@ (<<"README.md">> :> <<"# notes">>)

Roots == {<<"home", "dev", "routecodex">>}

\* a tree: SourceA with the lines a and, when b has lines, SourceB with them
TreeOf(a, b) ==
    IF b = <<>> THEN (SourceA :> a) @@ FixedFiles
    ELSE (SourceA :> a) @@ (SourceB :> b) @@ FixedFiles

Trees == UNION {{TreeOf(a, b) : b \in SeqsUpTo(MaxLines - Len(a))} : a \in SeqsUpTo(MaxLines)}

Init ==
    /\ project_root \in Roots
    /\ tree \in Trees
    /\ pc = "start"
    /\ analysis = None
    /\ report_written = FALSE
    /\ exit_code = -1
    /\ previous = <<>>
    /\ script = <<>>
    /\ CleanupIdle
    /\ RiskIdle
    /\ ToolsIdle

\* main, line 437: result = finder.analyze_project()
Analyze ==
    /\ pc = "start"
    /\ \E files \in find_typescript_javascript_files(project_root, DOMAIN tree) :
           analysis' = AnalyzeFiles(tree, files)
    /\ pc' = "analyzed"
    /\ UNCHANGED <<project_root, tree, report_written, exit_code, previous,
                   cleanupVars, script, riskVars, toolVars>>

\* main with --dry-run: nothing is written (line 439)
DryRun ==
    /\ pc = "analyzed"
    /\ pc' = "done"
    /\ exit_code' = 0
    /\ UNCHANGED <<project_root, tree, analysis, report_written, previous,
                   cleanupVars, script, riskVars, toolVars>>

\* main, lines 440-447: generate_report divides by total_functions (line 287);
\* the exception is caught at line 463 and main returns 1
GenerateReport ==
    /\ pc = "analyzed"
    /\ IF analysis.total_functions = 0
       THEN /\ pc' = "done"
            /\ exit_code' = 1
            /\ UNCHANGED report_written
       ELSE /\ pc' = "reported"
            /\ report_written' = TRUE
            /\ UNCHANGED exit_code
    /\ UNCHANGED <<project_root, tree, analysis, previous, cleanupVars, script, riskVars, toolVars>>

\* main without --generate-cleanup (line 449)
NoCleanup ==
    /\ pc = "reported"
    /\ pc' = "done"
    /\ exit_code' = 0
    /\ UNCHANGED <<project_root, tree, analysis, report_written, previous,
                   cleanupVars, script, riskVars, toolVars>>

\* main, lines 449-459: the cleanup script of the unused functions
GenerateCleanup ==
    /\ pc = "reported"
    /\ script' = generate_cleanup_script(analysis.unused_functions)
    /\ pc' = "done"
    /\ exit_code' = 0
    /\ UNCHANGED <<project_root, tree, analysis, report_written, previous,
                   cleanupVars, riskVars, toolVars>>

\* the tool is run again on the unchanged tree
RunAgain ==
    /\ pc = "done"
    /\ Len(previous) < MaxRuns - 1
    /\ previous' = Append(previous, analysis)
    /\ pc' = "start"
    /\ analysis' = None
    /\ report_written' = FALSE
    /\ exit_code' = -1
    /\ script' = <<>>
    /\ UNCHANGED <<project_root, tree, cleanupVars, riskVars, toolVars>>

Next ==
    \/ Analyze
    \/ DryRun
    \/ GenerateReport
    \/ NoCleanup
    \/ GenerateCleanup
    \/ RunAgain

Spec == Init /\ [][Next]_vars

(***************************************************************************)
(* Claims about the finder's run (specification Spec).                     *)
(***************************************************************************)
Analyzed == pc \in {"analyzed", "reported", "done"}

\* the path of the tree whose relative name is file
PathOf(file) == CHOOSE q \in DOMAIN tree : JoinPath(q) = file

\* a finding is the definition record d with its risk level
FindingOf(f, d) ==
    /\ f.name = d.name
    /\ f.file = d.file
    /\ f.line = d.line
    /\ f.exported = d.exported

Reported(d) ==
    \E i \in 1..Len(analysis.unused_functions) : FindingOf(analysis.unused_functions[i], d)

\* C1: no definition record whose exported flag is true is among the unused
\* findings that analyze_project returns.
C1_ExportedExcluded ==
    Analyzed =>
        \A j \in 1..Len(analysis.all_functions) :
            analysis.all_functions[j].exported => ~Reported(analysis.all_functions[j])

\* an exported definition that nothing calls: only its flag keeps it out
C1_Witness ==
    /\ Analyzed
    /\ \E j \in 1..Len(analysis.all_functions) :
           /\ analysis.all_functions[j].exported
           /\ analysis.all_functions[j].name \notin analysis.all_calls

\* the project-wide call set: the union of the call sets of the enumerated files
ProjectCalls ==
    UNION {extract_function_calls_from_file(tree[analysis.files[i]])
           : i \in 1..Len(analysis.files)}

\* no definition whose name is in calls is among the findings
NoneReported(calls) ==
    \A j \in 1..Len(analysis.all_functions) :
        analysis.all_functions[j].name \in calls => ~Reported(analysis.all_functions[j])

\* C2: a definition whose name is in the project-wide call set is not among
\* the unused findings.
C2_DirectUse == Analyzed => NoneReported(ProjectCalls)

\* a definition that is not exported and is called from another file only
CalledElsewhereOnly(d, calls) ==
    /\ ~d.exported
    /\ d.name \in calls
    /\ d.name \notin extract_function_calls_from_file(tree[PathOf(d.file)])

C2_Witness ==
    /\ Analyzed
    /\ \E j \in 1..Len(analysis.all_functions) :
           CalledElsewhereOnly(analysis.all_functions[j], analysis.all_calls)

\* the protected naming patterns of the specification: on*/handle* handlers,
\* *Handler/*Listener suffixes, test/it/describe/before/after prefixes
ProtectedName(name) ==
    \/ PrefixThenLetter(name, "on")
    \/ PrefixThenLetter(name, "handle")
    \/ EndsWith(name, "Handler")
    \/ EndsWith(name, "Listener")
    \/ \E x \in {"test", "it", "describe", "before", "after"} : StartsWith(name, x)

\* C3: a definition with a protected name is never among the unused findings.
C3_ProtectedNeverReported ==
    Analyzed =>
        \A i \in 1..Len(analysis.unused_functions) :
            ~ProtectedName(analysis.unused_functions[i].name)

\* the name occurs, quoted, in a line of the file
QuotedIn(name, lines) ==
    \E k \in 1..Len(lines) :
        \/ Contains(lines[k], "'" \o name \o "'")
        \/ Contains(lines[k], "\"" \o name \o "\"")

\* C4: a definition whose name occurs in its own file as a quoted string is
\* not among the unused findings, even when nothing calls it.
C4_IndirectUseExcluded ==
    Analyzed =>
        \A i \in 1..Len(analysis.unused_functions) :
            ~QuotedIn(analysis.unused_functions[i].name,
                      tree[PathOf(analysis.unused_functions[i].file)])

\* the tree of the end-to-end example: one source file with three lines
ExampleTree ==
    TreeOf(<<"export function used(){}", "function helper(){}", "used();">>, <<>>)

\* C6: on the example tree the analysis yields exactly one unused finding,
\* helper, of tier MEDIUM, and none named used.
C6_ExampleFindings ==
    (Analyzed /\ tree = ExampleTree) =>
        /\ Len(analysis.unused_functions) = 1
        /\ analysis.unused_functions[1].name = "helper"
        /\ analysis.unused_functions[1].risk_level = "MEDIUM"

\* the findings as a set (each with its risk level)
FindingSet(a) == {a.unused_functions[i] : i \in 1..Len(a.unused_functions)}

RiskNames == {"initHelper", "cleanup", "formatHelper", "_scratch", "tempFile", "loadConfig"}

RiskFiles == {"src/index.ts", "src/utils/format.ts", "src/cache.ts", "test/cache.ts",
              "src/server/routes.ts"}

RiskKinds == {"function", "method"}

RiskInit ==
    /\ risk_input \in [name : RiskNames, file : RiskFiles, kind : RiskKinds,
                       by : {"finder", "analyzer"}]
    /\ risk_output = None
    /\ FinderIdle
    /\ CleanupIdle
    /\ script = <<>>
    /\ ToolsIdle

\* SimpleDeadFunctionFinder._assess_risk_level(func_name, file_path)
ClassifyByFinder ==
    /\ risk_output = None
    /\ risk_input.by = "finder"
    /\ risk_output' = FinderAssessRisk(risk_input.name, risk_input.file)
    /\ UNCHANGED <<risk_input, finderVars, cleanupVars, script, toolVars>>

\* DeadFunctionAnalyzer._assess_risk_level(func_name, file_path)
ClassifyByAnalyzer ==
    /\ risk_output = None
    /\ risk_input.by = "analyzer"
    /\ risk_output' = AnalyzerAssessRisk(risk_input.name, risk_input.file)
    /\ UNCHANGED <<risk_input, finderVars, cleanupVars, script, toolVars>>

RiskNext == ClassifyByFinder \/ ClassifyByAnalyzer

SpecRisk == RiskInit /\ [][RiskNext]_vars

\* the last component of a path
Basename(path) == SplitSlash(path)[Len(SplitSlash(path))]

ContainsAny(s, markers) == \E x \in markers : Contains(s, x)

\* the reference rule table, first match wins
ReferenceRisk(name, file, kind) ==
    IF ContainsAny(Basename(file), {"index", "main", "app", "server"}) THEN "HIGH"
    ELSE IF ContainsAny(name, {"init", "setup", "config", "start"}) THEN "HIGH"
    ELSE IF kind = "method" THEN "HIGH"
    ELSE IF ContainsAny(Basename(file), {"util", "helper", "service", "manager"}) THEN "MEDIUM"
    ELSE IF ContainsAny(name, {"helper", "util", "service"}) THEN "MEDIUM"
    ELSE IF \/ StartsWith(name, "_")
            \/ StartsWith(name, "temp")
            \/ ContainsAny(name, {"temp", "test", "demo", "example"}) THEN "LOW"
    ELSE "MEDIUM"

\* C5: each classifier gives every (name, file path, kind) the tier of the
\* reference rule table.
C5_ReferenceTable ==
    risk_output # None =>
        risk_output = ReferenceRisk(risk_input.name, risk_input.file, risk_input.kind)

(***************************************************************************)
(* The cleanup stage of both tools on lists of findings long enough for    *)
(* the limits of the scripts and of the plan: the finder from its report   *)
(* on (main, lines 449-459), the analyzer from the loaded data on (main,   *)
(* lines 305-333).                                                         *)
(***************************************************************************)
MaxFinderLow == 11

MaxLow == 21

MaxMedium == 31

\* a path whose name holds quotes and a shell command
QuotedPath == <<"test", "a'; rm -rf src; echo '.ts">>

FixturePath == <<"test", "fixtures.ts">>

\* n definitions pick1 .. pickn of the finder, in one file under test/
RECURSIVE FixtureRecords(_)
FixtureRecords(n) ==
    IF n = 0 THEN <<>>
    ELSE Append(FixtureRecords(n - 1),
                FunctionRecord("pick" \o ToString(n), FixturePath, n, "const pick = function(){}"))

FinderExtras ==
    [high   |-> <<FunctionRecord("onClick", SourceA, 1, "const onClick = function(){}")>>,
     medium |-> <<FunctionRecord("compute", SourceA, 2, "const compute = function(){}")>>,
     quoted |-> <<FunctionRecord("pick", QuotedPath, 1, "const pick = function(){}")>>,
     export |-> <<FunctionRecord("mk", SourceA, 3, "export const mk = (a) => a")>>,
     twin   |-> <<FunctionRecord("probe", <<"test", "unit", "fixtures.ts">>, 1,
                                 "const probe = function(){}")>>]

RECURSIVE ExtraRecords(_, _)
ExtraRecords(extras, kinds) ==
    IF kinds = <<>> THEN <<>>
    ELSE (IF Head(kinds) \in extras THEN FinderExtras[Head(kinds)] ELSE <<>>)
         \o ExtraRecords(extras, Tail(kinds))

\* the definitions of a finder run: the extras before the n fixtures
FinderFunctions(n, extras) ==
    ExtraRecords(extras, <<"high", "medium", "quoted", "export", "twin">>) \o FixtureRecords(n)

\* one item of function_calls: a function with one definition and no caller
Item(name, definition) ==
    [name |-> name, info |-> [called_by |-> <<>>, defined_in |-> <<definition>>]]

Definition(file, line) == [file |-> file, line |-> line, type |-> "function"]

Numbered(prefix, n) == IF n < 10 THEN prefix \o "0" \o ToString(n) ELSE prefix \o ToString(n)

RECURSIVE NumberedItems(_, _, _)
NumberedItems(prefix, file, n) ==
    IF n = 0 THEN <<>>
    ELSE Append(NumberedItems(prefix, file, n - 1),
                Item(Numbered(prefix, n), Definition(file, n)))

AnalyzerExtras ==
    [high   |-> <<Item("sessionManager", Definition("src/session.ts", 7))>>,
     orphan |-> <<Item("orphan", [line |-> 3])>>,
     quoted |-> <<Item("pick", Definition(JoinPath(QuotedPath), 1))>>,
     used   |-> <<[name |-> "usedFn",
                   info |-> [called_by |-> <<"main">>,
                             defined_in |-> <<Definition("src/cache.ts", 99)>>]]>>,
     twice  |-> <<[name |-> "parse",
                   info |-> [called_by |-> <<>>,
                             defined_in |-> <<Definition("src/cache.ts", 40),
                                              Definition("src/fmt.ts", 41)>>]]>>,
     absent |-> <<[name |-> "trim",
                   info |-> [defined_in |-> <<Definition("src/fmt.ts", 50)>>]]>>,
     undefined |-> <<[name |-> "ghost", info |-> [called_by |-> <<>>]]>>]

RECURSIVE ExtraItems(_, _)
ExtraItems(extras, kinds) ==
    IF kinds = <<>> THEN <<>>
    ELSE (IF Head(kinds) \in extras THEN AnalyzerExtras[Head(kinds)] ELSE <<>>)
         \o ExtraItems(extras, Tail(kinds))

\* project_data.json with m medium-risk, l low-risk functions and the extras
AnalyzerData(l, m, extras) ==
    [function_calls |->
        NumberedItems("helper", "src/fmt.ts", m)
        \o ExtraItems(extras, <<"high", "orphan", "quoted", "used", "twice", "absent", "undefined">>)
        \o NumberedItems("drop", "src/cache.ts", l)]

\* the list lengths tried: none, one, and the limit that max is one more than
Counts(max) == {0, 1, max - 1, max}

ExtraSets == {{}, {"high"}, {"orphan", "quoted"}, {"high", "orphan", "quoted", "used"},
              {"used", "twice", "absent", "undefined"}}

FinderCleanupInit ==
    /\ tool = "finder"
    /\ \E n \in 0..MaxFinderLow, extras \in SUBSET {"high", "medium", "quoted", "export", "twin"} :
           analysis = AnalysisResult(FinderFunctions(n, extras), {}, <<>>)
    /\ pc = "reported"
    /\ report_written = TRUE
    /\ tree = <<>>
    /\ data = None
    /\ unused_functions = <<>>
    /\ plan = None

\* .claude/skill/sysmem/project_data.json under the project root (line 24)
ArtifactPath == <<".claude", "skill", "sysmem", "project_data.json">>

\* a variant of load_analysis_results that takes a missing file for an empty one
load_analysis_results_EmptyWhenMissing(t) ==
    IF ArtifactPath \in DOMAIN t
    THEN [raised |-> FALSE, data |-> t[ArtifactPath]]
    ELSE [raised |-> FALSE, data |-> <<>>]

\* DeadFunctionAnalyzer.load_analysis_results: the parsed file, or
\* FileNotFoundError when there is none (lines 25-26)
load_analysis_results(t) ==
    IF ArtifactPath \in DOMAIN t
    THEN [raised |-> FALSE, data |-> t[ArtifactPath]]
    ELSE [raised |-> TRUE, data |-> None]

\* the analyzer is started on a project with or without the artifact
AnalyzerCleanupInit ==
    /\ tool = "analyzer"
    /\ \/ \E l \in Counts(MaxLow), m \in Counts(MaxMedium), extras \in ExtraSets :
              tree = (ArtifactPath :> AnalyzerData(l, m, extras))
       \/ tree = (ArtifactPath :> [project |-> "routecodex"])
       \/ tree = <<>>
    /\ pc = "start"
    /\ data = None
    /\ analysis = None
    /\ report_written = FALSE
    /\ unused_functions = <<>>
    /\ plan = None

CleanupInit ==
    /\ FinderCleanupInit \/ AnalyzerCleanupInit
    /\ project_root \in Roots
    /\ exit_code = -1
    /\ previous = <<>>
    /\ script = <<>>
    /\ RiskIdle
    /\ ToolsIdle

\* main, lines 304-305 and 339-341: data = analyzer.load_analysis_results();
\* the exception is caught, the failure printed and 1 returned
LoadAnalysisResults ==
    /\ tool = "analyzer"
    /\ pc = "start"
    /\ IF load_analysis_results(tree).raised
       THEN /\ pc' = "done"
            /\ exit_code' = 1
            /\ UNCHANGED data
       ELSE /\ pc' = "loaded"
            /\ data' = load_analysis_results(tree).data
            /\ UNCHANGED exit_code
    /\ UNCHANGED <<project_root, tree, analysis, report_written, previous,
                   tool, unused_functions, plan, script, riskVars, toolVars>>

\* main, line 308: unused_functions = analyzer.extract_unused_functions(data)
ExtractUnused ==
    /\ tool = "analyzer"
    /\ pc = "loaded"
    /\ unused_functions' = extract_unused_functions(data)
    /\ pc' = "extracted"
    /\ UNCHANGED <<project_root, tree, analysis, report_written, exit_code, previous,
                   tool, data, plan, script, riskVars, toolVars>>

\* main, line 311: plan = analyzer.generate_cleanup_plan(unused_functions)
GeneratePlan ==
    /\ tool = "analyzer"
    /\ pc = "extracted"
    /\ plan' = generate_cleanup_plan(unused_functions)
    /\ pc' = "planned"
    /\ UNCHANGED <<project_root, tree, analysis, report_written, exit_code, previous,
                   tool, data, unused_functions, script, riskVars, toolVars>>

\* main with --full-report (lines 319-326): the report of the plan is written
WriteFullReport ==
    /\ tool = "analyzer"
    /\ pc = "planned"
    /\ report_written' = TRUE
    /\ pc' = "report_done"
    /\ UNCHANGED <<project_root, tree, analysis, exit_code, previous,
                   tool, data, unused_functions, plan, script, riskVars, toolVars>>

\* main without --full-report
SkipFullReport ==
    /\ tool = "analyzer"
    /\ pc = "planned"
    /\ pc' = "report_done"
    /\ UNCHANGED <<project_root, tree, analysis, report_written, exit_code, previous,
                   tool, data, unused_functions, plan, script, riskVars, toolVars>>

\* main with --execute-phase-1 (lines 328-333): execute_phase_1_cleanup
\* writes the script unless phase 1 is empty (lines 181-183)
ExecutePhase1 ==
    /\ tool = "analyzer"
    /\ pc = "report_done"
    /\ script' = IF plan.phase_1_low_risk = <<>> THEN script
                 ELSE create_safe_cleanup_script(plan.phase_1_low_risk)
    /\ pc' = "done"
    /\ exit_code' = 0
    /\ UNCHANGED <<project_root, tree, analysis, report_written, previous,
                   tool, data, unused_functions, plan, riskVars, toolVars>>

\* main without --execute-phase-1
SkipPhase1 ==
    /\ tool = "analyzer"
    /\ pc = "report_done"
    /\ pc' = "done"
    /\ exit_code' = 0
    /\ UNCHANGED <<project_root, tree, analysis, report_written, previous,
                   tool, data, unused_functions, plan, script, riskVars, toolVars>>

CleanupNext ==
    \/ GenerateCleanup
    \/ NoCleanup
    \/ LoadAnalysisResults
    \/ ExtractUnused
    \/ GeneratePlan
    \/ WriteFullReport
    \/ SkipFullReport
    \/ ExecutePhase1
    \/ SkipPhase1

SpecCleanup == CleanupInit /\ [][CleanupNext]_vars

(***************************************************************************)
(* Claims about the cleanup script and the cleanup plan (SpecCleanup).     *)
(***************************************************************************)
\* a script has been generated
Scripted == pc = "done" /\ script # <<>>

\* the findings of the run
Findings == IF tool = "finder" THEN analysis.unused_functions ELSE unused_functions

\* the first line of the block of a finding, and the test that guards it
BlockHead(f) ==
    "echo 'clean function: " \o f.name \o " (" \o f.file \o ":" \o ToString(f.line) \o ")'"

Guard(file) == "if [[ -f '" \o file \o "' ]]; then"

IsGuard(line) == StartsWith(line, "if [[ -f '")

IsComment(line) == StartsWith(line, "#") \/ StartsWith(line, "  #")

\* the positions of the ";" of a line that are outside quotes (q: the open quote)
RECURSIVE UnquotedSemis(_, _, _)
UnquotedSemis(s, i, q) ==
    IF i > Len(s) THEN {}
    ELSE IF q # "" THEN UnquotedSemis(s, i + 1, IF Ch(s, i) = q THEN "" ELSE q)
    ELSE IF Ch(s, i) = ";" THEN {i} \cup UnquotedSemis(s, i + 1, "")
    ELSE IF Ch(s, i) \in {"'", "\""} THEN UnquotedSemis(s, i + 1, Ch(s, i))
    ELSE UnquotedSemis(s, i + 1, "")

\* the word at which the command starting at position i begins
CommandAt(s, i) == SubSeq(s, SpaceEnd(s, i), WordEnd(s, SpaceEnd(s, i)) - 1)

\* the commands a shell runs on a line
CommandNames(line) ==
    IF IsComment(line) THEN {}
    ELSE {CommandAt(line, 1)} \cup {CommandAt(line, i + 1) : i \in UnquotedSemis(line, 1, "")}

\* commands that delete or change files
Destructive == {"rm", "rmdir", "unlink", "mv", "sed", "truncate", "dd", "tee"}

\* the first line at or after k that is not a comment
RECURSIVE NextCommand(_, _)
NextCommand(lines, k) ==
    IF k > Len(lines) THEN ""
    ELSE IF IsComment(lines[k]) \/ lines[k] = "" THEN NextCommand(lines, k + 1)
    ELSE lines[k]

\* the copy of a file to its .backup sibling
BackupToSibling(file) == "  cp '" \o file \o "' '" \o file \o ".backup'"

GuardedBackup(lines, k, F) ==
    \E i \in 1..Len(F) :
        /\ lines[k] = Guard(F[i].file)
        /\ NextCommand(lines, k + 1) = BackupToSibling(F[i].file)

\* C8: the generated script starts with exit-on-first-failure, every block
\* first tests that the target file exists and then copies it to its .backup
\* sibling before any other action, and no line runs a command that deletes
\* or changes a file.
C8_SafeScript ==
    Scripted =>
        /\ StartsWith(NextCommand(script, 1), "set -e")
        /\ \A k \in 1..Len(script) : IsGuard(script[k]) => GuardedBackup(script, k, Findings)
        /\ \A k \in 1..Len(script) : CommandNames(script[k]) \cap Destructive = {}

\* the number of blocks of the script that are the block of finding f
BlocksFor(lines, f) ==
    Cardinality({k \in 1..(Len(lines) - 1) :
                    lines[k] = BlockHead(f) /\ lines[k + 1] = Guard(f.file)})

GuardCount(lines) == Cardinality({k \in 1..Len(lines) : IsGuard(lines[k])})

LowIndices(F) == {i \in 1..Len(F) : F[i].risk_level = "LOW"}

BlocksOnlyFor(lines, F, covered) ==
    /\ GuardCount(lines) = Cardinality(covered)
    /\ \A i \in covered : BlocksFor(lines, F[i]) >= 1
    /\ \A i \in 1..Len(F) : F[i].risk_level # "LOW" => BlocksFor(lines, F[i]) = 0

\* C9 as stated: the script has one guarded backup block for each LOW
\* finding, however many there are, and none for a MEDIUM or HIGH finding.
C9_EveryLowHasBlock == Scripted => BlocksOnlyFor(script, Findings, LowIndices(Findings))

\* the LOW findings that get a block: the first `limit` of them, and for the
\* analyzer those of them that name a file
CoveredIndices(F, limit) ==
    {i \in LowIndices(F) :
        /\ Cardinality({j \in LowIndices(F) : j < i}) < limit
        /\ tool = "analyzer" => F[i].file # ""}

ScriptLimit == IF tool = "finder" THEN FinderScriptLimit ELSE Phase1Limit

\* C9 amended: the script has one guarded backup block for each of the first
\* 10 (finder) or 20 (analyzer) LOW findings, in the analyzer only for those
\* that name a file, and none for a MEDIUM or HIGH finding.
C9_FirstLowHaveBlocks ==
    Scripted => BlocksOnlyFor(script, Findings, CoveredIndices(Findings, ScriptLimit))

\* a script for more LOW findings than it has blocks, next to a finding of
\* another level
C9_Witness ==
    /\ Scripted
    /\ Cardinality(LowIndices(Findings)) > GuardCount(script)
    /\ GuardCount(script) > 0
    /\ \E i \in 1..Len(Findings) : Findings[i].risk_level # "LOW"

\* the plan has been made
Planned == tool = "analyzer" /\ pc \in {"planned", "report_done", "done"} /\ exit_code # 1

Range(seq) == {seq[k] : k \in 1..Len(seq)}

Occurrences(seq, x) == Cardinality({k \in 1..Len(seq) : seq[k] = x})

OfLevel(seq, level) == \A k \in 1..Len(seq) : seq[k].risk_level = level

OwnLevels(p) ==
    /\ OfLevel(p.phase_1_low_risk, "LOW")
    /\ OfLevel(p.phase_2_medium_risk, "MEDIUM")
    /\ OfLevel(p.phase_3_high_risk, "HIGH")

Disjoint(p) ==
    /\ Range(p.phase_1_low_risk) \cap Range(p.phase_2_medium_risk) = {}
    /\ Range(p.phase_1_low_risk) \cap Range(p.phase_3_high_risk) = {}
    /\ Range(p.phase_2_medium_risk) \cap Range(p.phase_3_high_risk) = {}

Phases(p) == p.phase_1_low_risk \o p.phase_2_medium_risk \o p.phase_3_high_risk

EachOnce(F, phases) ==
    /\ Len(phases) = Len(F)
    /\ \A i \in 1..Len(F) : Occurrences(phases, F[i]) = Occurrences(F, F[i])

CountsSum(p) ==
    p.by_risk["LOW"] + p.by_risk["MEDIUM"] + p.by_risk["HIGH"] = p.total_unused

\* C10 as stated: the three phase lists are pairwise disjoint, each holds
\* findings of its own level only, together they hold every finding exactly
\* once, each count is the length of its phase list, and the counts sum to the
\* total.
C10_Partition ==
    Planned =>
        /\ OwnLevels(plan)
        /\ Disjoint(plan)
        /\ EachOnce(unused_functions, Phases(plan))
        /\ plan.by_risk["LOW"] = Len(plan.phase_1_low_risk)
        /\ plan.by_risk["MEDIUM"] = Len(plan.phase_2_medium_risk)
        /\ plan.by_risk["HIGH"] = Len(plan.phase_3_high_risk)
        /\ CountsSum(plan)

\* for each finding, how many findings of its level come up to it
LevelRanks(F) ==
    [i \in 1..Len(F) |->
        Cardinality({j \in 1..i : F[j].risk_level = F[i].risk_level})]

LevelCount(F, level) == Cardinality({i \in 1..Len(F) : F[i].risk_level = level})

\* phase is the first `limit` findings of the level, in their order
FirstOfLevel(phase, F, ranks, level, limit) ==
    /\ Len(phase) = Min(limit, LevelCount(F, level))
    /\ \A k \in 1..Len(phase) :
           \E i \in 1..Len(F) :
               F[i].risk_level = level /\ ranks[i] = k /\ phase[k] = F[i]

PhasesOf(p, F, ranks) ==
    /\ FirstOfLevel(p.phase_1_low_risk, F, ranks, "LOW", Phase1Limit)
    /\ FirstOfLevel(p.phase_2_medium_risk, F, ranks, "MEDIUM", Phase2Limit)
    /\ FirstOfLevel(p.phase_3_high_risk, F, ranks, "HIGH", Len(F))

\* C10 amended: the three phase lists are pairwise disjoint and each holds
\* findings of its own level only: the first 20 LOW findings, the first 30
\* MEDIUM findings and all HIGH findings, in the order of the list; each
\* count is the number of findings of its level in the whole list, and the
\* counts sum to the total, which is the length of the list.
C10_CappedPartition ==
    Planned =>
        /\ OwnLevels(plan)
        /\ Disjoint(plan)
        /\ PhasesOf(plan, unused_functions, LevelRanks(unused_functions))
        /\ \A level \in {"LOW", "MEDIUM", "HIGH"} :
               plan.by_risk[level] = LevelCount(unused_functions, level)
        /\ CountsSum(plan)
        /\ plan.total_unused = Len(unused_functions)

\* a plan for more LOW and more MEDIUM findings than the phases take
C10_Witness ==
    /\ Planned
    /\ plan.by_risk["LOW"] > Phase1Limit
    /\ plan.by_risk["MEDIUM"] > Phase2Limit
    /\ plan.by_risk["HIGH"] >= 1
    /\ Len(plan.phase_1_low_risk) = Phase1Limit

(***************************************************************************)
(* Claims about the analyzer's list of unused functions (SpecCleanup).     *)
(***************************************************************************)
\* the findings have been extracted
Extracted == tool = "analyzer" /\ pc \in {"extracted", "planned", "report_done", "done"}

\* the RiskTier order LOW < MEDIUM < HIGH
TierRank == [LOW |-> 1, MEDIUM |-> 2, HIGH |-> 3]

\* x is before or equal to y by (tier, module, name), tiers in RiskTier order
TierOrdered(x, y) ==
    IF x.risk_level # y.risk_level THEN TierRank[x.risk_level] < TierRank[y.risk_level]
    ELSE IF x.module # y.module THEN StrLess(x.module, y.module)
    ELSE ~StrLess(y.name, x.name)

\* C11: the list of unused functions is sorted by (tier, module, name) with
\* LOW < MEDIUM < HIGH: of two consecutive entries the earlier has the lower
\* or equal tier, then module, then name.
C11_SortedByTier ==
    Extracted =>
        \A k \in 1..(Len(unused_functions) - 1) :
            TierOrdered(unused_functions[k], unused_functions[k + 1])

\* C12: when project_data.json is missing, main returns 1 and writes neither
\* the report nor the phase-1 script, whatever the flags.
C12_MissingArtifact ==
    (tool = "analyzer" /\ ArtifactPath \notin DOMAIN tree) =>
        /\ ~report_written
        /\ script = <<>>
        /\ pc = "done" => exit_code = 1

\* a finished run of the analyzer on a project without the artifact
C12_Witness ==
    /\ tool = "analyzer"
    /\ ArtifactPath \notin DOMAIN tree
    /\ pc = "done"

(***************************************************************************)
(* The finder's run on a tree in which a source file cannot be read.       *)
(***************************************************************************)
RecoveryTrees ==
    {(SourceA :> a) @@ (SourceB :> Unreadable) @@ FixedFiles : a \in SeqsUpTo(MaxLines - 1)}
    \cup {(SourceA :> Unreadable) @@ (SourceB :> b) @@ FixedFiles : b \in SeqsUpTo(MaxLines - 1)}

RecoveryInit ==
    /\ project_root \in Roots
    /\ tree \in RecoveryTrees
    /\ pc = "start"
    /\ analysis = None
    /\ report_written = FALSE
    /\ exit_code = -1
    /\ previous = <<>>
    /\ script = <<>>
    /\ CleanupIdle
    /\ RiskIdle
    /\ ToolsIdle

SpecRecovery == RecoveryInit /\ [][Next]_vars

\* the enumerated files that can be read, in their order
RECURSIVE ReadableFiles(_, _)
ReadableFiles(t, files) ==
    IF files = <<>> THEN <<>>
    ELSE (IF t[Head(files)] = Unreadable THEN <<>> ELSE <<Head(files)>>)
         \o ReadableFiles(t, Tail(files))

FromFiles(a, t, files) ==
    /\ a.all_functions = AllFunctions(t, files)
    /\ a.all_calls = AllCalls(t, files)
    /\ a.unused_functions = UnusedFunctions(AllFunctions(t, files), AllCalls(t, files))

\* C13: a file that cannot be read contributes no definitions and no calls,
\* the pass completes, and the findings are those computed from the
\* definitions and calls of the other files.
C13_LocalRecovery ==
    Analyzed =>
        /\ \A j \in 1..Len(analysis.all_functions) :
               tree[PathOf(analysis.all_functions[j].file)] # Unreadable
        /\ FromFiles(analysis, tree, ReadableFiles(tree, analysis.files))

\* a completed pass over an unreadable file and a file with a finding
C13_Witness ==
    /\ Analyzed
    /\ \E i \in 1..Len(analysis.files) : tree[analysis.files[i]] = Unreadable
    /\ analysis.unused_functions # <<>>
    /\ analysis.all_calls # {}

(***************************************************************************)
(* gen-fingerprint-env.py: concurrent write_fingerprint_file invocations   *)
(* for one profile id and one output directory, and a reader of the        *)
(* output file.  A directory maps a file name to an inode; an open file    *)
(* refers to its inode, whatever the name later refers to.                 *)
(***************************************************************************)
NumWriters == 2

\* the number of write() calls that carry one document to the file: the
\* text buffer is flushed when it is full and when the file is closed
DocChunks == 2

Writers == 1..NumWriters

\* output_path and tmp_path: both depend on profile_id and output_dir only
OutputPath == "profile.json"

TmpPath == OutputPath \o ".tmp"

Chunk(w, k) == [by |-> w, part |-> k]

Hole == [by |-> -1, part |-> 0]

\* the document json.dump produces for the payload of invocation w
Document(w) == [k \in 1..DocChunks |-> Chunk(w, k)]

\* write() of one chunk at the position of the file offset
WriteAt(content, pos, chunk) ==
    [k \in 1..(IF pos > Len(content) THEN pos ELSE Len(content)) |->
        IF k = pos THEN chunk
        ELSE IF k <= Len(content) THEN content[k]
        ELSE Hole]

Without(d, name) == [n \in DOMAIN d \ {name} |-> d[n]]

WriteInit ==
    /\ \/ dir = <<>> /\ inode = <<>>
       \/ dir = (OutputPath :> 1) /\ inode = <<Document(0)>>
    /\ writer = [w \in Writers |-> [pc |-> "start", fd |-> 0, offset |-> 0]]
    /\ observed = {}
    /\ FinderIdle
    /\ CleanupIdle
    /\ script = <<>>
    /\ RiskIdle
    /\ RegionIdle
    /\ MonitorIdle

writeFrame == <<finderVars, cleanupVars, script, riskVars, regionVars, monitorVars>>

\* tmp_path.open("w"): creates the file, or truncates the file of that name
OpenTmp(w) ==
    /\ writer[w].pc = "start"
    /\ IF TmpPath \in DOMAIN dir
       THEN /\ inode' = [inode EXCEPT ![dir[TmpPath]] = <<>>]
            /\ UNCHANGED dir
            /\ writer' = [writer EXCEPT ![w] = [pc |-> "writing", fd |-> dir[TmpPath], offset |-> 0]]
       ELSE /\ inode' = Append(inode, <<>>)
            /\ dir' = (TmpPath :> Len(inode) + 1) @@ dir
            /\ writer' = [writer EXCEPT ![w] = [pc |-> "writing", fd |-> Len(inode) + 1, offset |-> 0]]
    /\ UNCHANGED <<observed, writeFrame>>

\* json.dump(payload, f): a full buffer is written to the file
WriteChunk(w) ==
    /\ writer[w].pc = "writing"
    /\ writer[w].offset < DocChunks - 1
    /\ inode' = [inode EXCEPT ![writer[w].fd] =
                    WriteAt(@, writer[w].offset + 1, Chunk(w, writer[w].offset + 1))]
    /\ writer' = [writer EXCEPT ![w].offset = @ + 1]
    /\ UNCHANGED <<dir, observed, writeFrame>>

\* the end of the with block: the rest of the buffer is written, the file closed
CloseTmp(w) ==
    /\ writer[w].pc = "writing"
    /\ writer[w].offset = DocChunks - 1
    /\ inode' = [inode EXCEPT ![writer[w].fd] = WriteAt(@, DocChunks, Chunk(w, DocChunks))]
    /\ writer' = [writer EXCEPT ![w] = [pc |-> "closed", fd |-> 0, offset |-> 0]]
    /\ UNCHANGED <<dir, observed, writeFrame>>

\* tmp_path.replace(output_path) and the return; FileNotFoundError when no
\* file has the temporary name
ReplaceTmp(w) ==
    /\ writer[w].pc = "closed"
    /\ IF TmpPath \in DOMAIN dir
       THEN /\ dir' = (OutputPath :> dir[TmpPath])
            /\ writer' = [writer EXCEPT ![w].pc = "returned"]
       ELSE /\ UNCHANGED dir
            /\ writer' = [writer EXCEPT ![w].pc = "raised"]
    /\ UNCHANGED <<inode, observed, writeFrame>>

\* a reader reads the whole output file
ReadOutput ==
    /\ OutputPath \in DOMAIN dir
    /\ observed' = {inode[dir[OutputPath]]}
    /\ UNCHANGED <<dir, inode, writer, writeFrame>>

WriteNext ==
    \/ \E w \in Writers : OpenTmp(w)
    \/ \E w \in Writers : WriteChunk(w)
    \/ \E w \in Writers : CloseTmp(w)
    \/ \E w \in Writers : ReplaceTmp(w)
    \/ ReadOutput

SpecWrite == WriteInit /\ [][WriteNext]_vars

CompleteDocuments == {Document(w) : w \in 0..NumWriters}

\* C14: the output file, whenever it exists, holds one complete document of
\* one invocation; the reader never reads anything else; and no invocation
\* ends without having returned with such a document in place.
C14_AtomicWrite ==
    /\ OutputPath \in DOMAIN dir => inode[dir[OutputPath]] \in CompleteDocuments
    /\ observed \subseteq CompleteDocuments
    /\ \A w \in Writers : writer[w].pc # "raised"

(***************************************************************************)
(* gen-fingerprint-env.py: _force_us_region on the env that                *)
(* launch_options returns.  A config is a JSON object kept as the sequence *)
(* of its items, in insertion order as a Python dict keeps them; a value   *)
(* is a string or a number, a number kept as its text.                     *)
(***************************************************************************)
Quote == "\""

Str(x) == [t |-> "s", x |-> x]

Num(x) == [t |-> "n", x |-> x]

CharAt(s, i) == IF i >= 1 /\ i <= Len(s) THEN SubSeq(s, i, i) ELSE ""

ItemKeys(cfg) == {cfg[i].k : i \in 1..Len(cfg)}

\* cfg.get(key, default)
GetItem(cfg, key, default) ==
    IF key \in ItemKeys(cfg)
    THEN cfg[CHOOSE i \in 1..Len(cfg) : cfg[i].k = key].v
    ELSE default

\* cfg[key] = value: a present key keeps its place
SetItem(cfg, key, value) ==
    IF key \in ItemKeys(cfg)
    THEN [i \in 1..Len(cfg) |-> IF cfg[i].k = key THEN [k |-> key, v |-> value] ELSE cfg[i]]
    ELSE Append(cfg, [k |-> key, v |-> value])

\* cfg.setdefault(key, value)
SetDefault(cfg, key, value) ==
    IF key \in ItemKeys(cfg) THEN cfg ELSE Append(cfg, [k |-> key, v |-> value])

\* json.dumps(cfg, ensure_ascii=False, separators=(",", ":"))
DumpValue(v) == IF v.t = "s" THEN Quote \o v.x \o Quote ELSE v.x

RECURSIVE DumpItems(_, _)
DumpItems(cfg, i) ==
    IF i > Len(cfg) THEN ""
    ELSE (IF i > 1 THEN "," ELSE "") \o Quote \o cfg[i].k \o Quote \o ":"
         \o DumpValue(cfg[i].v) \o DumpItems(cfg, i + 1)

json_dumps(cfg) == "{" \o DumpItems(cfg, 1) \o "}"

\* json.loads(blob): the scanner of a document without white space and
\* without escapes.  ok = FALSE is a document that raises, in json.loads or,
\* when it is not an object, in the item assignment that follows.
ScanFail == [ok |-> FALSE, end |-> 0, val |-> Str("")]

ParseFail == [ok |-> FALSE, cfg |-> <<>>]

StringFrom(s, i, closes) ==
    IF closes = {} THEN ScanFail
    ELSE [ok |-> TRUE, end |-> MinOf(closes) + 1,
          val |-> Str(SubSeq(s, i + 1, MinOf(closes) - 1))]

ScanString(s, i) ==
    IF CharAt(s, i) # Quote THEN ScanFail
    ELSE StringFrom(s, i, {j \in (i + 1)..Len(s) : CharAt(s, j) = Quote})

DigitSet == {"0", "1", "2", "3", "4", "5", "6", "7", "8", "9"}

RECURSIVE DigitsEnd(_, _)
DigitsEnd(s, i) == IF CharAt(s, i) \in DigitSet THEN DigitsEnd(s, i + 1) ELSE i

IntEnd(s, i) ==
    IF CharAt(s, i) = "0" THEN i + 1
    ELSE IF CharAt(s, i) \in DigitSet THEN DigitsEnd(s, i)
    ELSE 0

FracEnd(s, e) ==
    IF e # 0 /\ CharAt(s, e) = "." /\ CharAt(s, e + 1) \in DigitSet
    THEN DigitsEnd(s, e + 1)
    ELSE e

NumberEnd(s, i) == FracEnd(s, IntEnd(s, IF CharAt(s, i) = "-" THEN i + 1 ELSE i))

NumberFrom(s, i, e) ==
    IF e = 0 THEN ScanFail
    ELSE [ok |-> TRUE, end |-> e, val |-> Num(SubSeq(s, i, e - 1))]

ScanValue(s, i) ==
    IF CharAt(s, i) = Quote THEN ScanString(s, i) ELSE NumberFrom(s, i, NumberEnd(s, i))

RECURSIVE ParseItems(_, _, _)
AfterValue(s, key, v, acc) ==
    IF ~v.ok THEN ParseFail
    ELSE IF CharAt(s, v.end) = ","
    THEN ParseItems(s, v.end + 1, SetItem(acc, key.val.x, v.val))
    ELSE IF CharAt(s, v.end) = "}" /\ v.end = Len(s)
    THEN [ok |-> TRUE, cfg |-> SetItem(acc, key.val.x, v.val)]
    ELSE ParseFail

AfterKey(s, key, acc) ==
    IF ~key.ok \/ CharAt(s, key.end) # ":" THEN ParseFail
    ELSE AfterValue(s, key, ScanValue(s, key.end + 1), acc)

ParseItems(s, i, acc) == AfterKey(s, ScanString(s, i), acc)

json_loads(s) ==
    IF CharAt(s, 1) # "{" THEN ParseFail
    ELSE IF CharAt(s, 2) = "}"
    THEN (IF Len(s) = 2 THEN [ok |-> TRUE, cfg |-> <<>>] ELSE ParseFail)
    ELSE ParseItems(s, 2, <<>>)

ConfigPrefix == "CAMOU_CONFIG_"

ConfigKeys(e) == {k \in DOMAIN e : StartsWith(k, ConfigPrefix)}

\* sorted(keys): strings compare by code point
StrMin(S) == CHOOSE a \in S : \A b \in S \ {a} : StrLess(a, b)

RECURSIVE SortedStrings(_)
SortedStrings(S) ==
    IF S = {} THEN <<>> ELSE <<StrMin(S)>> \o SortedStrings(S \ {StrMin(S)})

\* "".join(parts)
RECURSIVE JoinValues(_, _, _)
JoinValues(e, keys, i) ==
    IF i > Len(keys) THEN "" ELSE e[keys[i]] \o JoinValues(e, keys, i + 1)

\* a variant of ConfigBlob that joins the chunks in the order of their numbers
RECURSIVE JoinNumbered(_, _)
JoinNumbered(e, i) ==
    IF (ConfigPrefix \o ToString(i)) \notin DOMAIN e THEN ""
    ELSE e[ConfigPrefix \o ToString(i)] \o JoinNumbered(e, i + 1)

ConfigBlob_NumberOrder(e) == JoinNumbered(e, 1)

ConfigBlob(e) == JoinValues(e, SortedStrings(ConfigKeys(e)), 1)

Latitude == Num("37.7749")

Longitude == Num("-122.4194")

\* lines 77-83
ForceFields(cfg) ==
    SetItem(
     SetItem(
      SetDefault(
       SetItem(
        SetItem(
         SetItem(cfg, "timezone", Str("America/Los_Angeles")),
         "locale:language", GetItem(cfg, "locale:language", Str("en"))),
        "locale:region", Str("US")),
       "locale:script", Str("Latn")),
      "geolocation:latitude", Latitude),
     "geolocation:longitude", Longitude)

\* lines 87-91
ReplaceConfig(e, payload) ==
    [k \in (DOMAIN e \ ConfigKeys(e)) \cup {ConfigPrefix \o "1"} |->
        IF k = ConfigPrefix \o "1" THEN payload ELSE e[k]]

ForceParsed(e, parsed) ==
    IF ~parsed.ok THEN e ELSE ReplaceConfig(e, json_dumps(ForceFields(parsed.cfg)))

_force_us_region(e) ==
    IF ConfigKeys(e) = {} THEN e ELSE ForceParsed(e, json_loads(ConfigBlob(e)))

MaxChunks == 10

ChunkCounts == {1, 2, MaxChunks - 1, MaxChunks}

\* the fields a fingerprint config may have
FieldLib ==
    <<[k |-> "navigator.userAgent", v |-> Str("Mozilla/5.0")],
      [k |-> "timezone", v |-> Str("Europe/Berlin")],
      [k |-> "locale:language", v |-> Str("de")],
      [k |-> "locale:script", v |-> Str("Cyrl")],
      [k |-> "screen.width", v |-> Num("1440")]>>

RECURSIVE Chosen(_, _)
Chosen(I, i) ==
    IF i > Len(FieldLib) THEN <<>>
    ELSE (IF i \in I THEN <<FieldLib[i]>> ELSE <<>>) \o Chosen(I, i + 1)

Configs == {Chosen(I, 1) : I \in SUBSET (1..Len(FieldLib))}

CeilDiv(a, b) == (a + b - 1) \div b

\* the blob cut into chunks of one size, at most n of them
Chunked(blob, size) ==
    [k \in {ConfigPrefix \o ToString(i) : i \in 1..CeilDiv(Len(blob), size)} |->
        SubSeq(blob,
               (CHOOSE i \in 1..CeilDiv(Len(blob), size) : ConfigPrefix \o ToString(i) = k) * size - size + 1,
               Min((CHOOSE i \in 1..CeilDiv(Len(blob), size) : ConfigPrefix \o ToString(i) = k) * size, Len(blob)))]

OtherEnvs == {<<>>, ("MOZ_HEADLESS" :> "1") @@ ("CAMOUFOX_PATH" :> "/opt/camoufox")}

LaunchEnvs ==
    {o @@ Chunked(json_dumps(c), CeilDiv(Len(json_dumps(c)), n)) :
        o \in OtherEnvs, c \in Configs, n \in ChunkCounts}
    \cup OtherEnvs

RegionInit ==
    /\ launch_env \in LaunchEnvs
    /\ env = launch_env
    /\ region_pc = "start"
    /\ FinderIdle
    /\ CleanupIdle
    /\ script = <<>>
    /\ RiskIdle
    /\ WriteIdle
    /\ MonitorIdle

\* generate_env_delta, lines 126-130
ForceUsRegion ==
    /\ region_pc = "start"
    /\ env' = _force_us_region(env)
    /\ region_pc' = "forced"
    /\ UNCHANGED <<launch_env, finderVars, cleanupVars, script, riskVars, writeVars,
                   monitorVars>>

RegionNext == ForceUsRegion

SpecRegion == RegionInit /\ [][RegionNext]_vars

ForcedKeys == {"timezone", "locale:region", "geolocation:latitude", "geolocation:longitude"}

HasUsRegion(after, before) ==
    /\ after.ok
    /\ GetItem(after.cfg, "timezone", Str("")) = Str("America/Los_Angeles")
    /\ GetItem(after.cfg, "locale:region", Str("")) = Str("US")
    /\ GetItem(after.cfg, "geolocation:latitude", Str("")) = Latitude
    /\ GetItem(after.cfg, "geolocation:longitude", Str("")) = Longitude
    /\ \A i \in 1..Len(before.cfg) :
           before.cfg[i].k \notin ForcedKeys =>
               GetItem(after.cfg, before.cfg[i].k, Str("")) = before.cfg[i].v

OtherKeysKept(before, after) ==
    /\ DOMAIN after \ ConfigKeys(after) = DOMAIN before \ ConfigKeys(before)
    /\ \A k \in DOMAIN before \ ConfigKeys(before) : after[k] = before[k]

RegionForced(before, after) ==
    IF ConfigKeys(before) = {} THEN after = before
    ELSE json_loads(ConfigBlob_NumberOrder(before)).ok =>
            /\ Cardinality(ConfigKeys(after)) = 1
            /\ \A k \in ConfigKeys(after) :
                   HasUsRegion(json_loads(after[k]), json_loads(ConfigBlob_NumberOrder(before)))
            /\ OtherKeysKept(before, after)

\* C15: after _force_us_region on an env whose chunks, joined in the order of
\* their numbers, are a JSON object, the env has one CAMOU_CONFIG_* key whose
\* JSON has the US time zone, region and coordinates and every other field
\* as before, and the other env keys are as before; an env without a
\* CAMOU_CONFIG_* key is unchanged.
C15_ForceUsRegion == region_pc = "forced" => RegionForced(launch_env, env)

(***************************************************************************)
(* The baseline monitor: repeated runs of the analysis with a single-slot  *)
(* baseline snapshot.  A snapshot is kept as its summary; an absent        *)
(* snapshot, analysis or diff is the empty sequence.  The thresholds, the  *)
(* alert text and the retention sweep read these values and change none of *)
(* them.                                                                   *)
(***************************************************************************)
MaxMonitorRuns == 3

Summary(low, medium, high, blocks) ==
    [total_unused_functions |-> low + medium + high,
     low_risk |-> low, medium_risk |-> medium, high_risk |-> high,
     dead_code_blocks |-> blocks]

TierCounts == {<<0, 0, 0>>, <<10, 0, 0>>, <<10, 3, 0>>, <<10, 3, 1>>}

Summaries == {Summary(t[1], t[2], t[3], b) : t \in TierCounts, b \in {0, 1}}

NoSummary == Summary(0, 0, 0, 0)

\* a variant of baseline_diff without the first-analysis case: an absent
\* baseline counts as zero
baseline_diff_FromZero(base, cur) ==
    [first_analysis |-> FALSE,
     total_unused_functions |-> cur[1].total_unused_functions
         - (IF base = <<>> THEN 0 ELSE base[1].total_unused_functions),
     dead_code_blocks |-> cur[1].dead_code_blocks
         - (IF base = <<>> THEN 0 ELSE base[1].dead_code_blocks),
     low_risk |-> cur[1].low_risk - (IF base = <<>> THEN 0 ELSE base[1].low_risk),
     medium_risk |-> cur[1].medium_risk - (IF base = <<>> THEN 0 ELSE base[1].medium_risk),
     high_risk |-> cur[1].high_risk - (IF base = <<>> THEN 0 ELSE base[1].high_risk)]

\* the diff of the current analysis against the loaded baseline
baseline_diff(base, cur) ==
    IF base = <<>> THEN [first_analysis |-> TRUE]
    ELSE [first_analysis |-> FALSE,
          total_unused_functions |-> cur[1].total_unused_functions - base[1].total_unused_functions,
          dead_code_blocks |-> cur[1].dead_code_blocks - base[1].dead_code_blocks,
          low_risk |-> cur[1].low_risk - base[1].low_risk,
          medium_risk |-> cur[1].medium_risk - base[1].medium_risk,
          high_risk |-> cur[1].high_risk - base[1].high_risk]

\* a variant of new_baseline that keeps a baseline that exists
new_baseline_KeepFirst(base, cur) == IF base = <<>> THEN cur ELSE base

\* the baseline a completed run persists: the current analysis, whatever the
\* previous baseline
new_baseline(base, cur) == cur

MonitorInit ==
    /\ baseline = <<>>
    /\ monitor_pc = "start"
    /\ loaded = <<>>
    /\ current = <<>>
    /\ diff = <<>>
    /\ monitor_exit = -1
    /\ history = <<>>
    /\ FinderIdle
    /\ CleanupIdle
    /\ script = <<>>
    /\ RiskIdle
    /\ WriteIdle
    /\ RegionIdle

monitorFrame == <<finderVars, cleanupVars, script, riskVars, writeVars, regionVars>>

\* on start, the single-slot baseline is loaded, if there is one
LoadBaseline ==
    /\ monitor_pc = "start"
    /\ loaded' = baseline
    /\ monitor_pc' = "loaded"
    /\ UNCHANGED <<baseline, current, diff, monitor_exit, history, monitorFrame>>

\* one full analysis pass produces the current analysis
AnalysisSucceeds ==
    /\ monitor_pc = "loaded"
    /\ \E c \in Summaries :
          /\ current' = <<c>>
          /\ history' = Append(history, [ok |-> TRUE, summary |-> c])
    /\ monitor_pc' = "analysed"
    /\ UNCHANGED <<baseline, loaded, diff, monitor_exit, monitorFrame>>

\* the analysis fails: the failure goes to the caller, exit code 1
AnalysisFails ==
    /\ monitor_pc = "loaded"
    /\ history' = Append(history, [ok |-> FALSE, summary |-> NoSummary])
    /\ monitor_exit' = 1
    /\ monitor_pc' = "done"
    /\ UNCHANGED <<baseline, loaded, current, diff, monitorFrame>>

DiffBaseline ==
    /\ monitor_pc = "analysed"
    /\ diff' = <<baseline_diff(loaded, current)>>
    /\ monitor_pc' = "diffed"
    /\ UNCHANGED <<baseline, loaded, current, monitor_exit, history, monitorFrame>>

\* the run is persisted and the current analysis becomes the baseline
PersistBaseline ==
    /\ monitor_pc = "diffed"
    /\ baseline' = new_baseline(baseline, current)
    /\ monitor_exit' = 0
    /\ monitor_pc' = "done"
    /\ UNCHANGED <<loaded, current, diff, history, monitorFrame>>

\* the next invocation; nothing but the baseline file is carried over
MonitorAgain ==
    /\ monitor_pc = "done"
    /\ Len(history) < MaxMonitorRuns
    /\ monitor_pc' = "start"
    /\ loaded' = <<>>
    /\ current' = <<>>
    /\ diff' = <<>>
    /\ monitor_exit' = -1
    /\ UNCHANGED <<baseline, history, monitorFrame>>

MonitorNext ==
    \/ LoadBaseline
    \/ AnalysisSucceeds
    \/ AnalysisFails
    \/ DiffBaseline
    \/ PersistBaseline
    \/ MonitorAgain

SpecMonitor == MonitorInit /\ [][MonitorNext]_vars

Diffed == monitor_pc \in {"diffed", "done"} /\ diff # <<>>

DeltaFields == {"total_unused_functions", "dead_code_blocks", "low_risk", "medium_risk", "high_risk"}

\* C16: with a baseline, each reported delta is the current count minus the
\* baseline's count; without one, the diff carries the first-analysis marker
\* and no numeric delta.
C16_BaselineDiff ==
    Diffed =>
        IF loaded = <<>>
        THEN diff[1].first_analysis /\ DOMAIN diff[1] \cap DeltaFields = {}
        ELSE /\ ~diff[1].first_analysis
             /\ \A f \in DeltaFields : diff[1][f] = current[1][f] - loaded[1][f]

\* a baseline with 10 unused functions, a current analysis with 13, delta +3
C16_Witness ==
    /\ Diffed
    /\ loaded # <<>>
    /\ loaded[1].total_unused_functions = 10
    /\ current[1].total_unused_functions = 13
    /\ diff[1].total_unused_functions = 3

\* the analysis of the most recent run whose analysis succeeded, if any
RECURSIVE LastSuccess(_, _)
LastSuccess(h, i) ==
    IF i = 0 THEN <<>>
    ELSE IF h[i].ok THEN <<h[i].summary>>
    ELSE LastSuccess(h, i - 1)

\* C17: between runs the baseline is the analysis of the most recent run
\* that completed successfully, and a run whose analysis failed has exit
\* code 1.
C17_BaselineIsLastSuccess ==
    monitor_pc = "done" =>
        /\ baseline = LastSuccess(history, Len(history))
        /\ ~history[Len(history)].ok => monitor_exit = 1

\* a failed run after two successful runs with different analyses
C17_Witness ==
    /\ monitor_pc = "done"
    /\ Len(history) = 3
    /\ history[1].ok /\ history[2].ok /\ ~history[3].ok
    /\ history[1].summary # history[2].summary
    /\ monitor_exit = 1

(***************************************************************************)
(* Call extraction and definition lines, on the finder's run (Spec).       *)
(***************************************************************************)
\* a line on which a definition is declared
DefinitionLine(line) == NamesOfLine(line) # <<>>

RECURSIVE OtherLines(_)
OtherLines(lines) ==
    IF lines = <<>> THEN <<>>
    ELSE (IF DefinitionLine(Head(lines)) THEN <<>> ELSE <<Head(lines)>>)
         \o OtherLines(Tail(lines))

\* the names called on the lines of the project that are not definition lines
CallsOffDefinitionLines ==
    UNION {extract_function_calls_from_file(OtherLines(tree[analysis.files[i]]))
           : i \in 1..Len(analysis.files)}

AllReported(calls) ==
    \A j \in 1..Len(analysis.all_functions) :
        (/\ ~analysis.all_functions[j].exported
         /\ analysis.all_functions[j].name \notin calls)
            => Reported(analysis.all_functions[j])

\* C18: a name enters the call set only from a line that is not a definition
\* line: the call set is the set of names called on the other lines, and a
\* non-exported definition that no such line calls is reported as unused.
C18_DefinitionLinesSkipped ==
    Analyzed =>
        /\ analysis.all_calls = CallsOffDefinitionLines
        /\ AllReported(CallsOffDefinitionLines)

(***************************************************************************)
(* The finder's run on trees whose lines export in other ways or merely    *)
(* hold the letters of the keyword.                                        *)
(***************************************************************************)
ExportLineLib ==
    {"const exportData = function(){}",
     "const helper = function(){} // export later",
     "const helper = function(){}",
     "export const run = function(){}",
     "const run = function(){}",
     "helper();"}

ExportStatements == {<<>>, <<"export { helper }">>, <<"export { run as helper }">>}

ExportTrees ==
    {TreeOf(a, b) : a \in UNION {[1..n -> ExportLineLib] : n \in 0..(MaxLines - 1)},
                    b \in ExportStatements}

ExportsInit ==
    /\ project_root \in Roots
    /\ tree \in ExportTrees
    /\ pc = "start"
    /\ analysis = None
    /\ report_written = FALSE
    /\ exit_code = -1
    /\ previous = <<>>
    /\ script = <<>>
    /\ CleanupIdle
    /\ RiskIdle
    /\ ToolsIdle

SpecExports == ExportsInit /\ [][Next]_vars

\* the line of the tree on which the definition d is declared
LineOf(d) == tree[PathOf(d.file)][d.line]

\* the declaration of the line is preceded by the export keyword
ExportDeclared(line) == StartsWith(line, "export const ") \/ StartsWith(line, "export function ")

\* C19: the exported flag of a definition record is true exactly when the
\* declaration on its line is preceded by the export keyword; a non-exported
\* definition whose line holds the letters elsewhere, and that nothing calls,
\* is among the findings.
C19_ExportedFlag ==
    Analyzed =>
        \A j \in 1..Len(analysis.all_functions) :
            /\ analysis.all_functions[j].exported
                   <=> ExportDeclared(LineOf(analysis.all_functions[j]))
            /\ (/\ ~ExportDeclared(LineOf(analysis.all_functions[j]))
                /\ analysis.all_functions[j].name \notin analysis.all_calls)
                   => Reported(analysis.all_functions[j])

\* the name a brace-list export statement makes visible: Y of { X as Y }
BraceListName(inner) ==
    IF \E i \in 1..Len(inner) : Lit(inner, i, " as ") # 0
    THEN SubSeq(inner, (CHOOSE i \in 1..Len(inner) : Lit(inner, i, " as ") # 0) + 4, Len(inner))
    ELSE inner

BraceListExports(line) ==
    IF StartsWith(line, "export { ") /\ EndsWith(line, " }")
    THEN {BraceListName(SubSeq(line, 10, Len(line) - 2))}
    ELSE {}

\* the names exported by a brace-list export statement of any enumerated file
ProjectExports ==
    UNION {UNION {BraceListExports(tree[analysis.files[i]][k])
                  : k \in 1..Len(tree[analysis.files[i]])}
           : i \in 1..Len(analysis.files)}

\* C20: a definition whose name a brace-list export statement of the project
\* exports is not among the unused findings.
C20_ProjectExportSet ==
    Analyzed =>
        \A i \in 1..Len(analysis.unused_functions) :
            analysis.unused_functions[i].name \notin ProjectExports

(***************************************************************************)
(* The finder's run below project roots of different names, on trees with  *)
(* files of every recognised extension.                                    *)
(***************************************************************************)
\* a root below a directory whose name is in exclude_dirs, and one that is not
EnumerationRoots == {<<"home", "dev", "routecodex">>, <<"home", "build", "routecodex">>}

ExtraFiles ==
    (<<"src", "logs", "c.tsx">> :> <<"used();">>)
    @@ (<<"lib", "d.jsx">> :> <<"function helper(){}">>)
    @@ (<<"lib", "e.js">> :> <<"onClick();">>)

EnumerationTrees ==
    {TreeOf(a, b) @@ x : a \in SeqsUpTo(1), b \in SeqsUpTo(1), x \in {<<>>, ExtraFiles}}

EnumerationInit ==
    /\ project_root \in EnumerationRoots
    /\ tree \in EnumerationTrees
    /\ pc = "start"
    /\ analysis = None
    /\ report_written = FALSE
    /\ exit_code = -1
    /\ previous = <<>>
    /\ script = <<>>
    /\ CleanupIdle
    /\ RiskIdle
    /\ ToolsIdle

SpecEnumeration == EnumerationInit /\ [][Next]_vars

Recognised(path) == \E k \in 1..Len(Extensions) : HasExtension(path, Extensions[k])

\* a directory of the path relative to the root is in the ignore set
BelowIgnored(path) == \E i \in 1..(Len(path) - 1) : path[i] \in ExcludeDirs

\* C21: the enumeration returns the files below the root that have a
\* recognised extension and no ignored directory in their relative path,
\* each once, whatever the names of the directories above the root.
C21_Enumeration ==
    Analyzed =>
        /\ Range(analysis.files) = {q \in DOMAIN tree : Recognised(q) /\ ~BelowIgnored(q)}
        /\ \A i, j \in 1..Len(analysis.files) :
               analysis.files[i] = analysis.files[j] => i = j

(***************************************************************************)
(* The findings of extract_unused_functions, on the analyzer's run         *)
(* (SpecCleanup).                                                          *)
(***************************************************************************)
\* the function has no caller: its called_by list is empty or absent
Uncalled(item) ==
    "called_by" \notin DOMAIN item.info \/ item.info.called_by = <<>>

DefinitionsOf(item) ==
    IF "defined_in" \in DOMAIN item.info THEN item.info.defined_in ELSE <<>>

\* the definition sites that are to yield a finding: <<item, entry>> pairs
Sites(items) ==
    {<<i, k>> \in (1..Len(items)) \X (1..4) :
        Uncalled(items[i]) /\ k <= Len(DefinitionsOf(items[i]))}

SiteKey(items, x) ==
    <<items[x[1]].name,
      Get(DefinitionsOf(items[x[1]])[x[2]], "file", ""),
      Get(DefinitionsOf(items[x[1]])[x[2]], "line", 0)>>

\* the findings are the sites, one to one: every finding is the finding of a
\* site, and a site has as many findings as there are sites like it
OnePerSite(found, items) ==
    /\ Len(found) = Cardinality(Sites(items))
    /\ \A n \in 1..Len(found) :
           \E x \in Sites(items) : SiteKey(items, x) = <<found[n].name, found[n].file, found[n].line>>
    /\ \A x \in Sites(items) :
           Cardinality({n \in 1..Len(found) :
                           <<found[n].name, found[n].file, found[n].line>> = SiteKey(items, x)})
               = Cardinality({y \in Sites(items) : SiteKey(items, y) = SiteKey(items, x)})

\* C22: extract_unused_functions yields one finding per definition site of
\* every function without a caller and nothing else, each of tier LOW, MEDIUM
\* or HIGH, and the empty list for data without function_calls.
C22_OneFindingPerSite ==
    (Extracted /\ exit_code # 1) =>
        /\ \A n \in 1..Len(unused_functions) :
               unused_functions[n].risk_level \in {"LOW", "MEDIUM", "HIGH"}
        /\ IF "function_calls" \in DOMAIN data
           THEN OnePerSite(unused_functions, data.function_calls)
           ELSE unused_functions = <<>>

\* data with a called function, a function defined twice, one without a
\* called_by list and one without a definition site
C22_Witness ==
    /\ Extracted
    /\ exit_code # 1
    /\ "function_calls" \in DOMAIN data
    /\ \E i \in 1..Len(data.function_calls) : ~Uncalled(data.function_calls[i])
    /\ \E i \in 1..Len(data.function_calls) :
           Uncalled(data.function_calls[i]) /\ Len(DefinitionsOf(data.function_calls[i])) = 2
    /\ \E i \in 1..Len(data.function_calls) : "called_by" \notin DOMAIN data.function_calls[i].info
    /\ \E i \in 1..Len(data.function_calls) : DefinitionsOf(data.function_calls[i]) = <<>>
    /\ unused_functions # <<>>

(***************************************************************************)
(* The backups of a generated script (SpecCleanup).                        *)
(***************************************************************************)
\* the copy command of the block of finding f
BackupCommand(lines, f) ==
    NextCommand(lines, (CHOOSE k \in 1..(Len(lines) - 1) :
                           lines[k] = BlockHead(f) /\ lines[k + 1] = Guard(f.file)) + 2)

\* where the copy command writes: the shell replaces $(basename file) by the
\* last component of the file, BACKUP_DIR is one directory for the whole script
BackupDestination(command, file) ==
    IF EndsWith(command, " \"$BACKUP_DIR/$(basename " \o file \o ").backup\"")
    THEN "$BACKUP_DIR/" \o Basename(file) \o ".backup"
    ELSE IF EndsWith(command, " '" \o file \o ".backup'")
    THEN file \o ".backup"
    ELSE ""

HasBlock(lines, f) == BlocksFor(lines, f) >= 1

\* C23: two blocks of a generated script that back up different source files
\* write to different backup destinations.
C23_BackupsDistinct ==
    Scripted =>
        \A i, j \in 1..Len(Findings) :
            (/\ HasBlock(script, Findings[i])
             /\ HasBlock(script, Findings[j])
             /\ Findings[i].file # Findings[j].file)
                => BackupDestination(BackupCommand(script, Findings[i]), Findings[i].file)
                   # BackupDestination(BackupCommand(script, Findings[j]), Findings[j].file)

(***************************************************************************)
(* The finder's run on a tree without definitions (Spec).                  *)
(***************************************************************************)
\* a step of main, past the analysis, of a run that found no definition
EmptyRunStep == pc \in {"analyzed", "reported"} /\ analysis.total_functions = 0 /\ pc' # pc

\* C24: in a run without --dry-run on a tree from which no definition is
\* extracted, the step after the analysis writes the report and does not
\* fail, and main ends with exit code 0.
C24_EmptyRunSucceeds ==
    [][/\ (EmptyRunStep /\ pc = "analyzed" /\ ~DryRun) => (report_written' /\ exit_code' # 1)
       /\ (EmptyRunStep /\ pc' = "done") => exit_code' = 0]_vars

====
